---------------------------- MODULE Spec2Model ----------------------------
(***************************************************************************)
(* SkilLink client pages (React view components over a REST backend).      *)
(*                                                                         *)
(* Each page is a state machine: its useState cells are the variables, its *)
(* handlers and the continuations of its awaited requests are the actions. *)
(* The backend is not part of the repository: a request is answered by a   *)
(* nondeterministic choice between success (with a value from a bounded    *)
(* set) and rejection.                                                     *)
(*                                                                         *)
(* One specification per page:                                             *)
(*   SpecBooking       BookingPage with its backend and requests in flight *)
(*   SpecBookingFilter BookingPage's filter tabs over arbitrary fetched    *)
(*                     lists                                               *)
(*   SpecDashboard     DashboardPage and its three load requests           *)
(*   SpecDashboardFair the same, every request in flight being answered    *)
(*   SpecSearch        SearchPage: geolocation and the search form         *)
(*   SpecConnect       SearchPage: the result list and the booking modal   *)
(*   SpecSkills        SkillsPage: the add-skill form                      *)
(*   SpecProjectsCreate ProjectsPage: the create form submitted with any   *)
(*                     content                                             *)
(*   SpecProjects      ProjectsPage: loading, creating and joining         *)
(*   SpecHome          HomePage: the observer of the animated sections     *)
(*   SpecPages         BookingPage, DashboardPage, SkillsPage or           *)
(*                     ProjectsPage, whichever is mounted                  *)
(***************************************************************************)
EXTENDS Integers, Sequences, FiniteSets, TLC

VARIABLES
    now,               \* the clock read by `new Date()`
    \* ---- BookingPage (src/src/pages/BookingPage.jsx)
    bpMounted,         \* the component has mounted (its mount effects ran)
    bpLoads,           \* getBookings requests the mount effect has sent
    bookings,          \* useState([])
    filteredBookings,  \* useState([])
    bpLoading,         \* useState(true)
    bpError,           \* useState('')
    filter,            \* useState('all')
    actionLoading,     \* useState(null)
    effectPending,     \* the [filter, bookings] effect is scheduled, not yet run
    bpCalls,           \* async calls of fetchBookings / handleStatusChange
    bpFetched,         \* history: getBookings requests sent, and the response
                       \* received to the latest-sent one that succeeded
    srvBookings,       \* the backend's bookings of the current user
    \* ---- DashboardPage (src/src/pages/ProjectsPage.jsx, lines 309-527)
    dpMounted,         \* the component has mounted
    dpLoads,           \* requests the mount effect has sent
    stats,             \* useState({bookings, credits, reputation, loading})
    dpReqs,            \* getBookings, getCredits, getUserReputation
    \* ---- SearchPage (src/src/pages/SearchPage.jsx)
    spMounted,         \* the component has mounted
    hasGeolocation,    \* the browser has navigator.geolocation
    searchQuery,       \* useState('')
    searchType,        \* useState('offering')
    radius,            \* useState(50)
    results,           \* useState([])
    spLoading,         \* useState(false)
    searched,          \* useState(false)
    spError,           \* useState('')
    currentLocation,   \* useState(null)
    locationPermission,\* useState('prompt')
    geoPending,        \* getCurrentPosition calls not yet called back
    spRequest,         \* the search request in flight, if any
    spResponse,        \* the backend's answer to it, on its way to the page
    spSent,            \* search requests sent so far
    spLast,            \* how the search request sent last has ended, if it has
    viewMode,          \* 'grid' or 'map'
    isBookingModalOpen,
    selectedProvider,  \* the user whose 'Book Session' was clicked, or NULL
    spBookingCalls,    \* createBooking calls in flight: what each was called with
    spSubmits,         \* createBooking calls made so far
    spLastConnect,     \* the user handleConnectClick was called with last, or NULL
    spBookingAnswers,  \* the backend's answer to each of them, on its way to the page
    spSubmitResult,    \* how the promise of the handleBookingSubmit call that settled last ended
    \* ---- SkillsPage (src/unnamed/part_000)
    skMounted,         \* the component has mounted
    skLoads,           \* getSkills requests the mount effect has sent
    skills,            \* useState({offering: [], seeking: []})
    newSkill,          \* useState({skillName: '', type: 'offering', proficiency: 3})
    skLoading,         \* useState(false)
    skError,           \* useState('')
    success,           \* useState('')
    skFetch,           \* the getSkills call of the mount effect
    skAdd,             \* the handleAddSkill call in progress, if any
    skAdds,            \* addSkill requests sent so far
    skTimers,          \* setTimeout callbacks not yet run: the add each belongs to, oldest first
    deleteLoading,     \* useState(null)
    skDeletes,         \* handleDeleteSkill calls, in the order they started
    srvSkills,         \* the backend's skills of the current user
    \* ---- ProjectsPage (src/src/pages/ProjectsPage.jsx, lines 1-307)
    prMounted,         \* the component has mounted
    prLoads,           \* getProjects requests the mount effect has sent
    projects,          \* useState([])
    prLoading,         \* useState(true)
    prError,           \* useState('')
    showCreateForm,    \* useState(false)
    newProject,        \* useState({title: '', description: '', skills: '', location: ''})
    prCalls,           \* async calls of fetchProjects / handleCreateProject
    joinLoading,       \* useState(null)
    prJoins,           \* handleJoinProject calls, in the order they started
    srvProjects,       \* the backend's projects
    \* ---- HomePage (src/src/pages/HomePage.jsx)
    hpMounted,         \* the component is mounted (its observer is connected)
    visibleSections,   \* useState(new Set())
    hpReports          \* the entries the observer has reported since mount

bpVars == <<bpMounted, bpLoads, bpFetched, bookings, filteredBookings, bpLoading, bpError, filter,
            actionLoading, effectPending, bpCalls, srvBookings>>

dpVars == <<dpMounted, dpLoads, stats, dpReqs>>

spModal == <<viewMode, isBookingModalOpen, selectedProvider, spBookingCalls,
             spSubmits, spLastConnect, spSubmitResult, spBookingAnswers>>

spVars == <<spMounted, hasGeolocation, searchQuery, searchType, radius, results, spLoading,
            searched, spError, currentLocation, locationPermission, geoPending,
            spRequest, spResponse, spSent, spLast, spModal>>

skVars == <<skMounted, skLoads, skills, newSkill, skLoading, skError, success, skFetch,
            skAdd, skAdds, skTimers, deleteLoading, skDeletes, srvSkills>>

prVars == <<prMounted, prLoads, projects, prLoading, prError, showCreateForm, newProject,
            prCalls, joinLoading, prJoins, srvProjects>>

hpVars == <<hpMounted, visibleSections, hpReports>>

vars == <<now, bpVars, dpVars, spVars, skVars, prVars, hpVars>>

----------------------------------------------------------------------------
(* Bounds *)

MaxNow == 2        \* the clock runs over 0..MaxNow
NumBookings == 2   \* bookings held by the backend in SpecBooking
MaxCalls == 3      \* async calls BookingPage starts in one run (mount included)
MaxList == 2       \* longest fetched list in SpecBookingFilter
MaxGeoCalls == 2   \* getCurrentPosition calls pending at once
MaxSearches == 2   \* search requests sent in one run
MaxQueryLen == 2   \* longest text typed into the search input
MaxResults == 2    \* longest list of users a search returns
MaxSubmits == 2    \* createBooking calls made in one run
MaxNameLen == 2    \* longest text typed into the skill name input
MaxAdds == 2       \* addSkill requests sent in one run
MaxDeletes == 1    \* deleteSkill requests sent in one run
MaxSkillsLen == 3  \* longest text in the skills field of the project form
MaxCreates == 2    \* createProject requests sent in one run
MaxJoins == 1      \* joinProject requests sent in one run
MaxTypedLen == 1   \* longest text typed into a field of the project form
MaxEntries == 2    \* most entries in one call of the observer's callback

----------------------------------------------------------------------------
(* Values *)

NULL == 0          \* JavaScript null for an id-valued cell; ids start at 1
NaN == -1          \* the time value of an Invalid Date
InvalidDate == -2  \* a date string `new Date` cannot parse

Statuses == {"pending", "confirmed", "completed", "cancelled"}
Filters == {"all", "upcoming", "pending", "confirmed", "past"}
Dates == {0, 1}
Times == {0, 1}
\* what a service call rejects with: "" stands for a falsy rejection value
ErrValues == {"", "Request failed"}

\* JavaScript `a || b` on strings
OrElse(a, b) == IF a = "" THEN b ELSE a

\* new Date(`${b.date}T${b.time}`): dates order first, then times of the day;
\* an unparseable string gives an Invalid Date, whose time value is NaN
StartOf(b) ==
    IF b.date = InvalidDate THEN NaN
    ELSE b.date * Cardinality(Times) + b.time

\* JavaScript `a > b` and `a < b` on Date objects: false when either is NaN
DateGt(a, b) == a # NaN /\ b # NaN /\ a > b
DateLt(a, b) == a # NaN /\ b # NaN /\ a < b

\* Text typed into a field is a sequence of characters
Whitespace == {" ", "\t"}

RECURSIVE TrimStart(_)
TrimStart(str) ==
    IF str # <<>> /\ Head(str) \in Whitespace THEN TrimStart(Tail(str)) ELSE str

RECURSIVE TrimEnd(_)
TrimEnd(str) ==
    IF str # <<>> /\ str[Len(str)] \in Whitespace
    THEN TrimEnd(SubSeq(str, 1, Len(str) - 1))
    ELSE str

\* String.prototype.trim with nothing removed
TrimNothing(str) == str

\* String.prototype.trim
Trim(str) == TrimEnd(TrimStart(str))

\* a string is falsy exactly when it is empty
Falsy(str) == str = <<>>

\* String.prototype.split(','): the pieces between the commas
RECURSIVE SplitCommas(_)
SplitCommas(str) ==
    IF \E i \in DOMAIN str : str[i] = ","
    THEN LET i == CHOOSE k \in DOMAIN str :
                     str[k] = "," /\ \A j \in 1..(k - 1) : str[j] # ","
         IN  <<SubSeq(str, 1, i - 1)>> \o SplitCommas(SubSeq(str, i + 1, Len(str)))
    ELSE <<str>>

\* useEffect(f) without the dependency array: f is due after every render
MountEffectDueEveryRender(mounted) == TRUE

\* useEffect(f, []): f is due after the first render only
MountEffectDue(mounted) == ~mounted

\* all texts of at most n characters over an alphabet
Texts(chars, n) == UNION {[1..k -> chars] : k \in 0..n}

----------------------------------------------------------------------------
(* BookingPage: pure functions *)

\* IsUpcoming with `>=` written for `>`
IsUpcomingNotStrict(b, t) ==
    /\ (b.status = "confirmed" \/ b.status = "pending")
    /\ (DateGt(StartOf(b), t) \/ (StartOf(b) # NaN /\ StartOf(b) = t))

\* lines 38-42, 110-113
IsUpcoming(b, t) ==
    /\ (b.status = "confirmed" \/ b.status = "pending")
    /\ DateGt(StartOf(b), t)

\* lines 43-47, 114-117
IsPast(b, t) ==
    \/ b.status = "completed"
    \/ DateLt(StartOf(b), t)

\* filterBookings with the 'pending' branch missing: the tab falls through to
\* the whole list
FilterBookingsNoPending(bs, f, t) ==
    LET up(b) == IsUpcoming(b, t)
        past(b) == IsPast(b, t)
        conf(b) == b.status = "confirmed"
    IN  IF f = "upcoming" THEN SelectSeq(bs, up)
        ELSE IF f = "past" THEN SelectSeq(bs, past)
        ELSE IF f = "confirmed" THEN SelectSeq(bs, conf)
        ELSE bs

\* filterBookings, lines 35-55: the value handed to setFilteredBookings
FilterBookings(bs, f, t) ==
    LET up(b) == IsUpcoming(b, t)
        past(b) == IsPast(b, t)
        pend(b) == b.status = "pending"
        conf(b) == b.status = "confirmed"
    IN  IF f = "upcoming" THEN SelectSeq(bs, up)
        ELSE IF f = "past" THEN SelectSeq(bs, past)
        ELSE IF f = "pending" THEN SelectSeq(bs, pend)
        ELSE IF f = "confirmed" THEN SelectSeq(bs, conf)
        ELSE bs

\* filterCounts, lines 108-120, computed at every render
FilterCounts(bs, t) ==
    LET up(b) == IsUpcoming(b, t)
        past(b) == IsPast(b, t)
        pend(b) == b.status = "pending"
        conf(b) == b.status = "confirmed"
    IN  [all |-> Len(bs),
         upcoming |-> Len(SelectSeq(bs, up)),
         past |-> Len(SelectSeq(bs, past)),
         pending |-> Len(SelectSeq(bs, pend)),
         confirmed |-> Len(SelectSeq(bs, conf))]

\* the card footer with the isProvider test of line 258 left out
CardActionsAnyRole(b) ==
    (IF b.status = "pending" THEN {"confirmed", "cancelled"} ELSE {})
    \cup
    (IF b.status = "confirmed" THEN {"completed", "cancelled"} ELSE {})

\* booking-card-footer, lines 257-309: the newStatus arguments of the
\* handleStatusChange buttons rendered on a card
CardActions(b) ==
    (IF b.isProvider /\ b.status = "pending"
        THEN {"confirmed", "cancelled"} ELSE {})
    \cup
    (IF b.status = "confirmed" THEN {"completed", "cancelled"} ELSE {})

\* lines 122-131 and 176-188: the cards on screen (none on the loading screen)
RenderedCards == IF bpLoading THEN <<>> ELSE filteredBookings

\* the buttons on screen: <<position of the card, booking id, newStatus>>
RenderedButtons ==
    UNION {{<<i, RenderedCards[i].id, s>> : s \in CardActions(RenderedCards[i])} :
             i \in DOMAIN RenderedCards}

\* lines 262, 269, 281, 288: disabled={actionLoading === booking.id}
ButtonEnabled(btn) == actionLoading # btn[2]

----------------------------------------------------------------------------
(* BookingPage: the backend *)

\* The bookings the backend holds: ids 1..NumBookings, the user teaches the
\* odd ones; their status changes, the rest is fixed
SrvBooking(i, st) ==
    [id |-> i, status |-> st, isProvider |-> (i % 2 = 1),
     date |-> (i - 1) \div Cardinality(Times) % Cardinality(Dates),
     time |-> (i - 1) % Cardinality(Times)]

CallFrame(kind, id, st, pc) ==
    [kind |-> kind, bookingId |-> id, newStatus |-> st, pc |-> pc,
     resp |-> <<>>, sent |-> 0]

DoneFrame == CallFrame("done", NULL, "", "done")

\* the status changes the page offers in a status, to either party: what the
\* other party's page can ask of the backend (lines 258, 277)
NextStatuses(st) ==
    IF st = "pending" THEN {"confirmed", "cancelled"}
    ELSE IF st = "confirmed" THEN {"completed", "cancelled"}
    ELSE {}

\* the backend answers getBookings with what it holds then, or rejects
ServerGetBookings(c) ==
    /\ bpCalls[c].pc = "getBookings"
    /\ \/ bpCalls' = [bpCalls EXCEPT ![c].pc = "getOk", ![c].resp = srvBookings]
       \/ bpCalls' = [bpCalls EXCEPT ![c].pc = "getErr"]
    /\ UNCHANGED <<dpVars, hpVars, spVars, skVars, prVars, now, bpMounted, bpLoads, bpFetched, bookings, filteredBookings, bpLoading,
                   bpError, filter, actionLoading, effectPending, srvBookings>>

\* the other party of a booking changes its status from their own page
ServerOtherParty(i, st) ==
    /\ st \in NextStatuses(srvBookings[i].status)
    /\ srvBookings' = [srvBookings EXCEPT ![i].status = st]
    /\ UNCHANGED <<dpVars, hpVars, spVars, skVars, prVars, now, bpMounted, bpLoads, bpFetched, bookings, filteredBookings, bpLoading,
                   bpError, filter, actionLoading, effectPending, bpCalls>>

----------------------------------------------------------------------------
(* BookingPage: the component *)

InitBooking ==
    /\ bpMounted = FALSE
    /\ bpLoads = 0
    /\ bookings = <<>>
    /\ filteredBookings = <<>>
    /\ bpLoading = TRUE
    /\ bpError = ""
    /\ filter = "all"
    /\ actionLoading = NULL
    /\ effectPending = FALSE
    /\ bpCalls = <<>>
    /\ bpFetched = [sent |-> 0, newest |-> 0, resp |-> <<>>]
    /\ srvBookings = [i \in 1..NumBookings |-> SrvBooking(i, "pending")]

\* lines 15-21: both effects run after the first render: fetchBookings()
\* (setLoading(true), getBookings sent) and filterBookings()
BookingMount ==
    /\ MountEffectDue(bpMounted)
    /\ bpMounted' = TRUE
    /\ bpLoads' = bpLoads + 1
    /\ bpLoading' = TRUE
    /\ bpCalls' = Append(bpCalls,
                         [CallFrame("fetchBookings", NULL, "", "getBookings")
                             EXCEPT !.sent = bpFetched.sent + 1])
    /\ bpFetched' = [bpFetched EXCEPT !.sent = @ + 1]
    /\ filteredBookings' = FilterBookings(bookings, filter, now)
    /\ effectPending' = FALSE
    /\ UNCHANGED <<dpVars, hpVars, spVars, skVars, prVars, now, bookings, bpError, filter, actionLoading, srvBookings>>

\* lines 19-21, 35-55: the effect of a render in which filter or bookings
\* changed
FilterEffect ==
    /\ bpMounted
    /\ effectPending
    /\ filteredBookings' = FilterBookings(bookings, filter, now)
    /\ effectPending' = FALSE
    /\ UNCHANGED <<dpVars, hpVars, spVars, skVars, prVars, now, bpMounted, bpLoads, bpFetched, bookings, bpLoading, bpError, filter,
                   actionLoading, bpCalls, srvBookings>>

\* line 166: a filter tab is clicked (the tabs are not on the loading screen)
SetFilter(f) ==
    /\ bpMounted
    /\ ~bpLoading
    /\ filter' = f
    /\ effectPending' = (effectPending \/ f # filter)
    /\ UNCHANGED <<dpVars, hpVars, spVars, skVars, prVars, now, bpMounted, bpLoads, bpFetched, bookings, filteredBookings, bpLoading,
                   bpError, actionLoading, bpCalls, srvBookings>>

\* the list with the status of one booking replaced
WithStatus(list, bookingId, newStatus) ==
    [i \in DOMAIN list |->
        IF list[i].id = bookingId THEN [list[i] EXCEPT !.status = newStatus]
        ELSE list[i]]

\* handleStatusChange writing the requested status into the lists it holds
\* before the request is answered
HandleStatusChangeOptimistic(bookingId, newStatus) ==
    /\ actionLoading' = bookingId
    /\ bpError' = ""
    /\ bpCalls' = Append(bpCalls,
                         CallFrame("handleStatusChange", bookingId, newStatus,
                                   "updateBookingStatus"))
    /\ bookings' = WithStatus(bookings, bookingId, newStatus)
    /\ filteredBookings' = WithStatus(filteredBookings, bookingId, newStatus)

\* handleStatusChange, lines 57-62, up to its first await; it sets neither
\* bookings nor filteredBookings
HandleStatusChange(bookingId, newStatus) ==
    /\ actionLoading' = bookingId
    /\ bpError' = ""
    /\ bpCalls' = Append(bpCalls,
                         CallFrame("handleStatusChange", bookingId, newStatus,
                                   "updateBookingStatus"))
    /\ UNCHANGED <<bookings, filteredBookings>>

\* lines 260-292: an enabled button of a rendered card is clicked
ClickStatusButton(btn) ==
    /\ bpMounted
    /\ btn \in RenderedButtons
    /\ ButtonEnabled(btn)
    /\ Len(bpCalls) < MaxCalls
    /\ HandleStatusChange(btn[2], btn[3])
    /\ UNCHANGED <<dpVars, hpVars, spVars, skVars, prVars, now, bpMounted, bpLoads, bpFetched,
                   bpLoading, filter, effectPending, srvBookings>>

\* lines 62-63, 23-26: updateBookingStatus succeeds (the backend has applied
\* the change) and the handler goes on to fetchBookings()
RecvUpdateOk(c) ==
    /\ bpCalls[c].pc = "updateBookingStatus"
    /\ \E i \in DOMAIN srvBookings :
          /\ srvBookings[i].id = bpCalls[c].bookingId
          /\ srvBookings' = [srvBookings EXCEPT
                               ![i].status = bpCalls[c].newStatus]
    /\ bpLoading' = TRUE
    /\ bpCalls' = [bpCalls EXCEPT ![c].pc = "getBookings",
                                  ![c].sent = bpFetched.sent + 1]
    /\ bpFetched' = [bpFetched EXCEPT !.sent = @ + 1]
    /\ UNCHANGED <<dpVars, hpVars, spVars, skVars, prVars, now, bpMounted, bpLoads, bookings, filteredBookings, bpError, filter,
                   actionLoading, effectPending>>

\* lines 64-68: updateBookingStatus rejects with err: catch, then finally
RecvUpdateErr(c, err) ==
    /\ bpCalls[c].pc = "updateBookingStatus"
    /\ bpError' = OrElse(err, "Failed to update booking")
    /\ actionLoading' = NULL
    /\ bpCalls' = [bpCalls EXCEPT ![c] = DoneFrame]
    /\ UNCHANGED <<dpVars, hpVars, spVars, skVars, prVars, now, bpMounted, bpLoads, bpFetched, bookings, filteredBookings, bpLoading,
                   filter, effectPending, srvBookings>>

\* lines 26-27, 30-32: the response to getBookings arrives; for a fetch
\* started by handleStatusChange its finally block follows (lines 66-68)
RecvGetBookingsOk(c) ==
    /\ bpCalls[c].pc = "getOk"
    /\ bookings' = bpCalls[c].resp
    /\ effectPending' = TRUE
    /\ bpLoading' = FALSE
    /\ actionLoading' = IF bpCalls[c].kind = "handleStatusChange"
                        THEN NULL ELSE actionLoading
    /\ bpCalls' = [bpCalls EXCEPT ![c] = DoneFrame]
    /\ bpFetched' = IF bpCalls[c].sent > bpFetched.newest
                    THEN [bpFetched EXCEPT !.newest = bpCalls[c].sent,
                                           !.resp = bpCalls[c].resp]
                    ELSE bpFetched
    /\ UNCHANGED <<dpVars, hpVars, spVars, skVars, prVars, now, bpMounted, bpLoads, filteredBookings, bpError, filter,
                   srvBookings>>

\* lines 28-32: getBookings rejects with err; then as above
RecvGetBookingsErr(c, err) ==
    /\ bpCalls[c].pc = "getErr"
    /\ bpError' = OrElse(err, "Failed to fetch bookings")
    /\ bpLoading' = FALSE
    /\ actionLoading' = IF bpCalls[c].kind = "handleStatusChange"
                        THEN NULL ELSE actionLoading
    /\ bpCalls' = [bpCalls EXCEPT ![c] = DoneFrame]
    /\ UNCHANGED <<dpVars, hpVars, spVars, skVars, prVars, now, bpMounted, bpLoads, bpFetched, bookings, filteredBookings, filter,
                   effectPending, srvBookings>>

\* time passes
Tick ==
    /\ now < MaxNow
    /\ now' = now + 1
    /\ UNCHANGED <<bpVars, hpVars, dpVars, spVars, skVars, prVars>>

----------------------------------------------------------------------------
(* Values the backend can return *)

\* What getBookings can return: up to MaxList bookings, ids by position, of
\* any status, with any start or a date that does not parse
FetchedBooking(i, st, d, t) ==
    [id |-> i, status |-> st, isProvider |-> (i % 2 = 1), date |-> d, time |-> t]

BookingShapes ==
    {<<st, d, t>> : st \in Statuses, d \in Dates, t \in Times}
    \cup {<<st, InvalidDate, 0>> : st \in Statuses}

FetchedLists ==
    UNION {{[i \in 1..n |-> FetchedBooking(i, sh[i][1], sh[i][2], sh[i][3])] :
               sh \in [1..n -> BookingShapes]} : n \in 0..MaxList}

----------------------------------------------------------------------------
(* DashboardPage *)

\* what getUserReputation resolves with; NoReputation is null
NoReputation == "null"
Reputations == {"Beginner/10", "Expert/90"}
\* what getCredits resolves with: {balance}
Balances == {0, 7}

\* a request: not sent, in flight, resolved with a value, or rejected
Request(st, v) == [state |-> st, value |-> v]
Settled(r) == r.state \in {"resolved", "rejected"}

\* getBookings().catch(() => []), line 335
CaughtBookings(r) == IF r.state = "resolved" THEN r.value ELSE <<>>
\* getCredits().catch(() => ({ balance: 0 })), line 336
CaughtCredits(r) == IF r.state = "resolved" THEN r.value ELSE 0
\* getUserReputation(currentUser.id).catch(() => null), line 337
CaughtReputation(r) == IF r.state = "resolved" THEN r.value ELSE NoReputation

\* the await of line 334 goes on as soon as one request has settled
AnySettled(reqs) ==
    \E k \in DOMAIN reqs : Settled(reqs[k])

\* await Promise.all([...]), line 334: every promise has been fulfilled (a
\* rejected request is fulfilled by its catch handler)
AllSettled(reqs) ==
    \A k \in DOMAIN reqs : Settled(reqs[k])

\* the upcoming test of BookingPage, which also keeps pending bookings
IsDashUpcomingOrPending(b, t) ==
    /\ (b.status = "confirmed" \/ b.status = "pending")
    /\ DateGt(StartOf(b), t)

\* line 342
IsDashUpcoming(b, t) ==
    /\ b.status = "confirmed"
    /\ DateGt(StartOf(b), t)

\* Promise.all without the catch handlers: a rejection reaches the catch
\* block of lines 352-355
LoadedStatsNoCatch(reqs, t) ==
    IF \E k \in DOMAIN reqs : reqs[k].state = "rejected"
    THEN [bookings |-> <<>>, completedSessions |-> 0, credits |-> 0,
          reputation |-> NoReputation, loading |-> FALSE]
    ELSE LET done(b) == b.status = "completed"
             up(b) == IsDashUpcoming(b, t)
         IN  [bookings |-> SelectSeq(reqs.getBookings.value, up),
              completedSessions |-> Len(SelectSeq(reqs.getBookings.value, done)),
              credits |-> reqs.getCredits.value,
              reputation |-> reqs.getUserReputation.value,
              loading |-> FALSE]

\* lines 334-351: the value handed to setStats once the three have settled
LoadedStats(reqs, t) ==
    LET bookingsData == CaughtBookings(reqs.getBookings)
        creditsData == CaughtCredits(reqs.getCredits)
        reputationData == CaughtReputation(reqs.getUserReputation)
        done(b) == b.status = "completed"
        up(b) == IsDashUpcoming(b, t)
    IN  [bookings |-> SelectSeq(bookingsData, up),
         completedSessions |-> Len(SelectSeq(bookingsData, done)),
         credits |-> creditsData,
         reputation |-> reputationData,
         loading |-> FALSE]

\* lines 321-326; the dashboard is shown to a signed-in user (currentUser is
\* an object, line 319)
InitDashboard ==
    /\ dpMounted = FALSE
    /\ dpLoads = 0
    /\ stats = [bookings |-> <<>>, credits |-> 0, reputation |-> NoReputation,
                loading |-> TRUE]
    /\ dpReqs = [getBookings |-> Request("idle", <<>>),
                 getCredits |-> Request("idle", 0),
                 getUserReputation |-> Request("idle", NoReputation)]

\* lines 328-338: the mount effect calls fetchDashboardData, which sends the
\* three requests
DashboardMount ==
    /\ MountEffectDue(dpMounted)
    /\ dpMounted' = TRUE
    /\ dpLoads' = dpLoads + Cardinality(DOMAIN dpReqs)
    /\ dpReqs' = [k \in DOMAIN dpReqs |-> [dpReqs[k] EXCEPT !.state = "pending"]]
    /\ UNCHANGED <<now, stats, bpVars, hpVars, spVars, skVars, prVars>>

\* a request settles; when it is the last one, the rest of fetchDashboardData
\* runs (lines 340-351). Nothing in it throws for a signed-in user and
\* well-formed responses, so the catch block of lines 352-355 does not run
Settle(k, r) ==
    /\ dpReqs[k].state = "pending"
    /\ dpReqs' = [dpReqs EXCEPT ![k] = r]
    /\ stats' = IF AllSettled(dpReqs')
                THEN LoadedStats(dpReqs', now)
                ELSE stats
    /\ UNCHANGED <<now, dpMounted, dpLoads, bpVars, hpVars, spVars, skVars, prVars>>

GetBookingsResolves(list) == Settle("getBookings", Request("resolved", list))
GetBookingsRejects == Settle("getBookings", Request("rejected", <<>>))
GetCreditsResolves(balance) == Settle("getCredits", Request("resolved", balance))
GetCreditsRejects == Settle("getCredits", Request("rejected", 0))
GetUserReputationResolves(rep) ==
    Settle("getUserReputation", Request("resolved", rep))
GetUserReputationRejects ==
    Settle("getUserReputation", Request("rejected", NoReputation))

----------------------------------------------------------------------------
(* SearchPage *)

NullLocation == <<>>                  \* currentLocation === null
Locations == {<<18, 73>>}             \* <<lat, lng>> reported by the browser
SearchTypes == {"offering", "seeking"}
DefaultRadius == 50
Radii == {1, DefaultRadius, 100}      \* the slider runs from 1 to 100
QueryChars == {"a", " "}
Users == {1, 2}
NoRequest == [call |-> "none"]
NoResponse == [state |-> "none"]
\* no handleBookingSubmit call has settled yet
NotSettled == [state |-> "none"]
\* what createBooking rejects with
BookingErrors == {"Provider unavailable", "Network Error"}
\* what a failed search rejects with: err.response.data.error, or err itself
SearchErrors ==
    {[responseError |-> "Invalid skill", plain |-> "Error"],
     [responseError |-> "", plain |-> "Network Error"],
     [responseError |-> "", plain |-> ""]}

InitSearch ==
    /\ spMounted = FALSE
    /\ searchQuery = <<>>
    /\ searchType = "offering"
    /\ radius = DefaultRadius
    /\ results = <<>>
    /\ spLoading = FALSE
    /\ searched = FALSE
    /\ spError = ""
    /\ currentLocation = NullLocation
    /\ locationPermission = "prompt"
    /\ geoPending = 0
    /\ spRequest = NoRequest
    /\ spResponse = NoResponse
    /\ spSent = 0
    /\ spLast = "none"
    /\ viewMode = "grid"
    /\ isBookingModalOpen = FALSE
    /\ selectedProvider = NULL
    /\ spBookingCalls = <<>>
    /\ spSubmits = 0
    /\ spLastConnect = NULL
    /\ spSubmitResult = NotSettled
    /\ spBookingAnswers = <<>>

\* the controls of the search form with no disabled attribute
FormEnabledAlways(loading) == TRUE

\* lines 148, 159, 170, 185, 195: disabled={loading}
FormEnabled(loading) == ~loading

\* requestLocation, lines 28-57, up to the callbacks; hasGeo is whether the
\* browser has navigator.geolocation
RequestLocation(hasGeo) ==
    IF hasGeo
    THEN /\ geoPending' = geoPending + 1
         /\ UNCHANGED locationPermission
    ELSE /\ locationPermission' = "denied"
         /\ UNCHANGED geoPending

\* lines 24-26
SearchMount(hasGeo) ==
    /\ ~spMounted
    /\ spMounted' = TRUE
    /\ hasGeo = hasGeolocation
    /\ RequestLocation(hasGeo)
    /\ UNCHANGED <<hasGeolocation, now, bpVars, hpVars, dpVars, skVars, prVars, searchQuery, searchType,
                   radius, results,
                   spLoading, searched, spError, currentLocation, spRequest,
                   spResponse, spSent, spLast, spModal>>

\* line 129: the 'Enable Location' button of the warning
ClickEnableLocation(hasGeo) ==
    /\ spMounted
    /\ locationPermission = "denied"
    /\ geoPending < MaxGeoCalls
    /\ hasGeo = hasGeolocation
    /\ RequestLocation(hasGeo)
    /\ UNCHANGED <<now, bpVars, hpVars, dpVars, skVars, prVars, spMounted, hasGeolocation, searchQuery, searchType,
                   radius, results, spLoading, searched, spError,
                   currentLocation, spRequest, spResponse, spSent, spLast, spModal>>

\* lines 35-51: the success callback (the PUT of the location changes no
\* state, whether it succeeds or fails)
GeoSuccess(location) ==
    /\ geoPending > 0
    /\ geoPending' = geoPending - 1
    /\ currentLocation' = location
    /\ locationPermission' = "granted"
    /\ UNCHANGED <<now, bpVars, hpVars, dpVars, skVars, prVars, spMounted, hasGeolocation, searchQuery, searchType,
                   radius, results, spLoading, searched, spError, spRequest,
                   spResponse, spSent, spLast, spModal>>

\* lines 52-55: the error callback
GeoError ==
    /\ geoPending > 0
    /\ geoPending' = geoPending - 1
    /\ locationPermission' = "denied"
    /\ UNCHANGED <<now, bpVars, hpVars, dpVars, skVars, prVars, spMounted, hasGeolocation, searchQuery, searchType,
                   radius, results, spLoading, searched, spError,
                   currentLocation, spRequest, spResponse, spSent, spLast, spModal>>

\* lines 143-146: typing in the search input (disabled while loading)
TypeQuery(q) ==
    /\ spMounted /\ FormEnabled(spLoading)
    /\ searchQuery' = q
    /\ spError' = ""
    /\ UNCHANGED <<now, bpVars, hpVars, dpVars, skVars, prVars, spMounted, hasGeolocation, searchType, radius, results,
                   spLoading, searched, currentLocation, locationPermission,
                   geoPending, spRequest, spResponse, spSent, spLast, spModal>>

\* lines 158, 169: the radio buttons (disabled while loading)
SetSearchType(t) ==
    /\ spMounted /\ FormEnabled(spLoading)
    /\ searchType' = t
    /\ UNCHANGED <<now, bpVars, hpVars, dpVars, skVars, prVars, spMounted, hasGeolocation, searchQuery, radius, results,
                   spLoading, searched, spError, currentLocation,
                   locationPermission, geoPending, spRequest, spResponse, spSent, spLast, spModal>>

\* lines 176-188: the radius slider, shown once a location is held
SetRadius(r) ==
    /\ spMounted /\ FormEnabled(spLoading)
    /\ currentLocation # NullLocation
    /\ radius' = r
    /\ UNCHANGED <<now, bpVars, hpVars, dpVars, skVars, prVars, spMounted, hasGeolocation, searchQuery, searchType,
                   results, spLoading, searched, spError, currentLocation,
                   locationPermission, geoPending, spRequest, spResponse, spSent, spLast, spModal>>

\* the validation of line 62 with the trim left out
QueryMissingNoTrim(q) == Falsy(TrimNothing(q))

\* line 62: !searchQuery.trim()
QueryMissing(q) == Falsy(Trim(q))

\* the request with the search type sent along to /users/nearby
SearchRequestWithType(q, t, r, loc) ==
    IF loc # NullLocation
    THEN [call |-> "api.get /users/nearby",
          params |-> [skill |-> q, radius |-> r, latitude |-> loc[1],
                      longitude |-> loc[2], type |-> t]]
    ELSE [call |-> "searchUsers", params |-> [skill |-> q, type |-> t]]

\* lines 73-88: the request handleSearch sends
SearchRequest(q, t, r, loc) ==
    IF loc # NullLocation
    THEN [call |-> "api.get /users/nearby",
          params |-> [skill |-> q, radius |-> r, latitude |-> loc[1],
                      longitude |-> loc[2]]]
    ELSE [call |-> "searchUsers", params |-> [skill |-> q, type |-> t]]

\* handleSearch, lines 59-88, up to its await: the form is submitted (its
\* input and button are disabled while loading)
HandleSearch ==
    /\ spMounted /\ FormEnabled(spLoading)
    /\ IF QueryMissing(searchQuery)
       THEN /\ spError' = "Please enter a skill to search"
            /\ UNCHANGED <<spLoading, searched, spRequest, spSent, spLast>>
       ELSE /\ spSent < MaxSearches
            /\ spLast' = "pending"
            /\ spLoading' = TRUE
            /\ spError' = ""
            /\ searched' = TRUE
            /\ spRequest' = SearchRequest(searchQuery, searchType, radius,
                                          currentLocation)
            /\ spSent' = spSent + 1
    /\ UNCHANGED <<now, bpVars, hpVars, dpVars, skVars, prVars, spMounted, hasGeolocation, searchQuery, searchType,
                   radius, results, currentLocation, locationPermission,
                   geoPending, spResponse, spModal>>

\* the backend answers the search with a list of users, or rejects it
BackendAnswersSearch(data) ==
    /\ spRequest # NoRequest
    /\ spResponse = NoResponse
    /\ spResponse' = [state |-> "resolved", data |-> data]
    /\ UNCHANGED <<now, bpVars, hpVars, dpVars, skVars, prVars, spMounted, hasGeolocation, searchQuery, searchType,
                   radius, results, spLoading, searched, spError,
                   currentLocation, locationPermission, geoPending, spRequest,
                   spSent, spLast, spModal>>

BackendRejectsSearch(err) ==
    /\ spRequest # NoRequest
    /\ spResponse = NoResponse
    /\ spResponse' = [state |-> "rejected", err |-> err]
    /\ UNCHANGED <<now, bpVars, hpVars, dpVars, skVars, prVars, spMounted, hasGeolocation, searchQuery, searchType,
                   radius, results, spLoading, searched, spError,
                   currentLocation, locationPermission, geoPending, spRequest,
                   spSent, spLast, spModal>>

\* the page ranks what it received (here: puts it in descending order of id)
RECURSIVE RankedResults(_)
RankedResults(data) ==
    IF data = <<>> THEN <<>>
    ELSE LET m == CHOOSE i \in DOMAIN data : \A j \in DOMAIN data : data[j] <= data[i]
         IN  <<data[m]>> \o RankedResults(SubSeq(data, 1, m - 1)
                                            \o SubSeq(data, m + 1, Len(data)))

\* lines 82, 84, 90: `data = response.data` / `data = await searchUsers(...)`,
\* then setResults(data)
ReceivedResults(data) == data

\* lines 82-95: the answer arrives: setResults (or setError in the catch
\* block), then setLoading(false) in the finally block
SearchSettles ==
    /\ spResponse # NoResponse
    /\ IF spResponse.state = "resolved"
       THEN /\ results' = ReceivedResults(spResponse.data)
            /\ UNCHANGED spError
       ELSE /\ spError' = OrElse(spResponse.err.responseError,
                                 OrElse(spResponse.err.plain, "Search failed"))
            /\ UNCHANGED results
    /\ spLoading' = FALSE
    /\ spLast' = spResponse.state
    /\ spRequest' = NoRequest
    /\ spResponse' = NoResponse
    /\ UNCHANGED <<now, bpVars, hpVars, dpVars, skVars, prVars, spMounted, hasGeolocation, searchQuery, searchType,
                   radius, searched, currentLocation, locationPermission,
                   geoPending, spSent, spModal>>

\* lines 209, 293: the results block is rendered
ResultsShown == ~spLoading /\ searched /\ Len(results) > 0

ViewModes == {"grid", "map"}

\* lines 216, 222-224: the Grid and Map buttons; Map is disabled without a
\* location
SetViewMode(mode) ==
    /\ spMounted /\ ResultsShown
    /\ mode = "map" => currentLocation # NullLocation
    /\ viewMode' = mode
    /\ UNCHANGED <<now, bpVars, hpVars, dpVars, skVars, prVars, spMounted,
                   hasGeolocation, searchQuery, searchType, radius, results,
                   spLoading, searched, spError, currentLocation,
                   locationPermission, geoPending, spRequest, spResponse,
                   spSent, spLast, spSubmitResult, spBookingAnswers, isBookingModalOpen, selectedProvider,
                   spBookingCalls, spSubmits, spLastConnect>>

\* lines 231-237, 250, 280-285: a user of the result list can be picked on
\* the map (map view with a location) or by its card's button (grid view)
ConnectOffered(user) ==
    /\ ResultsShown
    /\ \E i \in DOMAIN results : results[i] = user
    /\ \/ viewMode = "map" /\ currentLocation # NullLocation
       \/ viewMode = "grid"

\* a handleConnectClick that opens the modal and leaves the provider alone
SelectProviderKept(prev, user) == prev

\* line 99: setSelectedProvider(user)
SelectProvider(prev, user) == user

\* handleConnectClick, lines 98-101
HandleConnectClick(user) ==
    /\ spMounted /\ ConnectOffered(user)
    /\ selectedProvider' = SelectProvider(selectedProvider, user)
    /\ isBookingModalOpen' = TRUE
    /\ spLastConnect' = user
    /\ UNCHANGED <<now, bpVars, hpVars, dpVars, skVars, prVars, spMounted,
                   hasGeolocation, searchQuery, searchType, radius, results,
                   spLoading, searched, spError, currentLocation,
                   locationPermission, geoPending, spRequest, spResponse,
                   spSent, spLast, spSubmitResult, spBookingAnswers, viewMode, spBookingCalls, spSubmits>>

\* line 303: onClose={() => setIsBookingModalOpen(false)}
CloseBookingModal ==
    /\ spMounted /\ isBookingModalOpen
    /\ isBookingModalOpen' = FALSE
    /\ UNCHANGED <<now, bpVars, hpVars, dpVars, skVars, prVars, spMounted,
                   hasGeolocation, searchQuery, searchType, radius, results,
                   spLoading, searched, spError, currentLocation,
                   locationPermission, geoPending, spRequest, spResponse,
                   spSent, spLast, spSubmitResult, spBookingAnswers, viewMode, selectedProvider, spBookingCalls,
                   spSubmits, spLastConnect>>

\* what the modal's form hands to onSubmit; the modal is given the provider's
\* name only (line 305), so its data carries no providerId
BookingForms == {[message |-> "a"], [message |-> ""]}

\* lines 105-108: { providerId: selectedProvider.id, ...bookingData }; a key
\* of bookingData replaces the same key written before the spread. Users are
\* represented by their ids.
BookingPayload(provider, bookingData) ==
    LET first == [providerId |-> provider]
    IN  [k \in DOMAIN first \cup DOMAIN bookingData |->
            IF k \in DOMAIN bookingData THEN bookingData[k] ELSE first[k]]

\* handleBookingSubmit, lines 103-108, up to its await: the open modal calls
\* onSubmit. With no provider selected, selectedProvider.id throws before
\* createBooking is called and the catch block rethrows.
HandleBookingSubmit(bookingData) ==
    /\ spMounted /\ isBookingModalOpen
    /\ spSubmits < MaxSubmits
    /\ IF selectedProvider = NULL
       THEN UNCHANGED <<spBookingCalls, spBookingAnswers, spSubmits>>
       ELSE /\ spBookingCalls' =
                   Append(spBookingCalls,
                          BookingPayload(selectedProvider, bookingData))
            /\ spBookingAnswers' = Append(spBookingAnswers, NoResponse)
            /\ spSubmits' = spSubmits + 1
    /\ UNCHANGED <<now, bpVars, hpVars, dpVars, skVars, prVars, spMounted,
                   hasGeolocation, searchQuery, searchType, radius, results,
                   spLoading, searched, spError, currentLocation,
                   locationPermission, geoPending, spRequest, spResponse,
                   spSent, spLast, viewMode, isBookingModalOpen,
                   selectedProvider, spLastConnect, spSubmitResult>>

\* the backend accepts the booking of call c, or rejects it
BackendAnswersBooking(c) ==
    /\ c \in DOMAIN spBookingAnswers
    /\ spBookingAnswers[c] = NoResponse
    /\ spBookingAnswers' = [spBookingAnswers EXCEPT ![c] = [state |-> "resolved"]]
    /\ UNCHANGED <<now, bpVars, hpVars, dpVars, skVars, prVars, spMounted,
                   hasGeolocation, searchQuery, searchType, radius, results,
                   spLoading, searched, spError, currentLocation,
                   locationPermission, geoPending, spRequest, spResponse,
                   spSent, spLast, viewMode, isBookingModalOpen,
                   selectedProvider, spBookingCalls, spSubmits, spLastConnect,
                   spSubmitResult>>

BackendRejectsBooking(c, err) ==
    /\ c \in DOMAIN spBookingAnswers
    /\ spBookingAnswers[c] = NoResponse
    /\ spBookingAnswers' =
           [spBookingAnswers EXCEPT ![c] = [state |-> "rejected", err |-> err]]
    /\ UNCHANGED <<now, bpVars, hpVars, dpVars, skVars, prVars, spMounted,
                   hasGeolocation, searchQuery, searchType, radius, results,
                   spLoading, searched, spError, currentLocation,
                   locationPermission, geoPending, spRequest, spResponse,
                   spSent, spLast, viewMode, isBookingModalOpen,
                   selectedProvider, spBookingCalls, spSubmits, spLastConnect,
                   spSubmitResult>>

\* the calls in flight without call c
OtherBookingCalls(c) ==
    SubSeq(spBookingCalls, 1, c - 1)
        \o SubSeq(spBookingCalls, c + 1, Len(spBookingCalls))

\* and the answers to them
OtherBookingAnswers(c) ==
    SubSeq(spBookingAnswers, 1, c - 1)
        \o SubSeq(spBookingAnswers, c + 1, Len(spBookingAnswers))

\* lines 110-111: createBooking resolves: alert, setIsBookingModalOpen(false);
\* the promise handed to the modal is fulfilled
CreateBookingResolves(c) ==
    /\ c \in DOMAIN spBookingCalls
    /\ spBookingAnswers[c].state = "resolved"
    /\ spBookingCalls' = OtherBookingCalls(c)
    /\ spBookingAnswers' = OtherBookingAnswers(c)
    /\ isBookingModalOpen' = FALSE
    /\ spSubmitResult' = [state |-> "fulfilled"]
    /\ UNCHANGED <<now, bpVars, hpVars, dpVars, skVars, prVars, spMounted,
                   hasGeolocation, searchQuery, searchType, radius, results,
                   spLoading, searched, spError, currentLocation,
                   locationPermission, geoPending, spRequest, spResponse,
                   spSent, spLast, viewMode, selectedProvider, spSubmits,
                   spLastConnect>>

\* a catch block that keeps the error to itself
Swallowed(err) == [state |-> "fulfilled"]

\* lines 112-114: catch (err) { throw err }
Rethrown(err) == [state |-> "rejected", err |-> err]

\* lines 112-114: createBooking rejects: the catch block rethrows to the
\* modal and no cell of the page changes
CreateBookingRejects(c) ==
    /\ c \in DOMAIN spBookingCalls
    /\ spBookingAnswers[c].state = "rejected"
    /\ spBookingCalls' = OtherBookingCalls(c)
    /\ spBookingAnswers' = OtherBookingAnswers(c)
    /\ spSubmitResult' = Rethrown(spBookingAnswers[c].err)
    /\ UNCHANGED <<now, bpVars, hpVars, dpVars, skVars, prVars, spMounted,
                   hasGeolocation, searchQuery, searchType, radius, results,
                   spLoading, searched, spError, currentLocation,
                   locationPermission, geoPending, spRequest, spResponse,
                   spSent, spLast, viewMode, isBookingModalOpen,
                   selectedProvider, spSubmits, spLastConnect>>

----------------------------------------------------------------------------
(* SkillsPage *)

NameChars == {"a", " "}
SkillTypes == {"offering", "seeking"}
DefaultProficiency == 3
Proficiencies == {DefaultProficiency, 5}
\* line 58 (the leading check-mark emoji is left out)
SkillAdded == "Skill added successfully! +2 credits earned"
NoAdd == [pc |-> "none"]
\* lines 59-63
EmptySkillForm ==
    [skillName |-> <<>>, type |-> "offering", proficiency |-> DefaultProficiency]

\* a skill as the backend stores and returns it (ids are given in the order
\* of the requests)
StoredSkill(id, form) == [id |-> id, skillName |-> form.skillName]
SkillIds(list) == {list.offering[i].id : i \in DOMAIN list.offering}
                  \cup {list.seeking[i].id : i \in DOMAIN list.seeking}
DeleteCall(pc, id) == [pc |-> pc, skillId |-> id]

InitSkills ==
    /\ skMounted = FALSE
    /\ skLoads = 0
    /\ skills = [offering |-> <<>>, seeking |-> <<>>]
    /\ newSkill = EmptySkillForm
    /\ skLoading = FALSE
    /\ skError = ""
    /\ success = ""
    /\ skFetch = "idle"
    /\ skAdd = NoAdd
    /\ skAdds = 0
    /\ skTimers = <<>>
    /\ deleteLoading = NULL
    /\ skDeletes = <<>>
    /\ srvSkills = [offering |-> <<>>, seeking |-> <<>>]

\* lines 23-29: the mount effect calls fetchSkills
SkillsMount ==
    /\ MountEffectDue(skMounted)
    /\ skMounted' = TRUE
    /\ skLoads' = skLoads + 1
    /\ skFetch' = "pending"
    /\ UNCHANGED <<now, bpVars, hpVars, dpVars, spVars, prVars, deleteLoading, skDeletes, skills, newSkill,
                   skLoading, skError, success, skAdd, skAdds, skTimers,
                   srvSkills>>

\* lines 29-30: the getSkills of the mount effect resolves
MountSkillsResolve ==
    /\ skFetch = "pending"
    /\ skFetch' = "done"
    /\ skills' = srvSkills
    /\ UNCHANGED <<now, bpVars, hpVars, dpVars, spVars, prVars, deleteLoading, skDeletes, skMounted, skLoads, newSkill,
                   skLoading, skError, success, skAdd, skAdds, skTimers,
                   srvSkills>>

\* lines 31-33: it rejects with err
MountSkillsReject(err) ==
    /\ skFetch = "pending"
    /\ skFetch' = "done"
    /\ skError' = OrElse(err, "Failed to fetch skills")
    /\ UNCHANGED <<now, bpVars, hpVars, dpVars, spVars, prVars, deleteLoading, skDeletes, skMounted, skLoads, skills,
                   newSkill, skLoading, success, skAdd, skAdds, skTimers,
                   srvSkills>>

\* handleChange, lines 36-42, for the name input (disabled while loading)
ChangeSkillName(name) ==
    /\ skMounted /\ ~skLoading
    /\ newSkill' = [newSkill EXCEPT !.skillName = name]
    /\ skError' = ""
    /\ UNCHANGED <<now, bpVars, hpVars, dpVars, spVars, prVars, deleteLoading, skDeletes, skMounted, skLoads, skills,
                   skLoading, success, skFetch, skAdd, skAdds, skTimers,
                   srvSkills>>

\* handleChange for the type and proficiency selects
ChangeSkillKind(type, proficiency) ==
    /\ skMounted /\ ~skLoading
    /\ newSkill' = [newSkill EXCEPT !.type = type, !.proficiency = proficiency]
    /\ skError' = ""
    /\ UNCHANGED <<now, bpVars, hpVars, dpVars, spVars, prVars, deleteLoading, skDeletes, skMounted, skLoads, skills,
                   skLoading, success, skFetch, skAdd, skAdds, skTimers,
                   srvSkills>>

\* the validation of line 47 with the trim left out
SkillNameMissingNoTrim(form) == Falsy(TrimNothing(form.skillName))

\* line 47: !newSkill.skillName.trim()
SkillNameMissing(form) == Falsy(Trim(form.skillName))

\* handleAddSkill, lines 44-57, up to its first await: the form is submitted
\* (its button is disabled while loading)
HandleAddSkill ==
    /\ skMounted /\ ~skLoading
    /\ IF SkillNameMissing(newSkill)
       THEN /\ skError' = "Skill name is required"
            /\ UNCHANGED <<skLoading, success, skAdd, skAdds>>
       ELSE /\ skAdds < MaxAdds
            /\ skLoading' = TRUE
            /\ skError' = ""
            /\ success' = ""
            /\ skAdd' = [pc |-> "addSkill", skill |-> newSkill]
            /\ skAdds' = skAdds + 1
    /\ UNCHANGED <<now, bpVars, hpVars, dpVars, spVars, prVars, deleteLoading, skDeletes, skMounted, skLoads, skills,
                   newSkill, skFetch, skTimers, srvSkills>>

\* lines 57-64: addSkill resolves (the backend has stored the skill); the
\* handler sets the success message, clears the form and calls fetchSkills
AddSkillResolves ==
    /\ skAdd.pc = "addSkill"
    /\ srvSkills' = [srvSkills EXCEPT
                        ![skAdd.skill.type] = Append(@, StoredSkill(skAdds, skAdd.skill))]
    /\ success' = SkillAdded
    /\ newSkill' = EmptySkillForm
    /\ skAdd' = [pc |-> "getSkills"]
    /\ UNCHANGED <<now, bpVars, hpVars, dpVars, spVars, prVars, deleteLoading, skDeletes, skMounted, skLoads, skills,
                   skLoading, skError, skFetch, skAdds, skTimers>>

\* lines 67-71: addSkill rejects with err: catch, then finally
AddSkillRejects(err) ==
    /\ skAdd.pc = "addSkill"
    /\ skError' = OrElse(err, "Failed to add skill")
    /\ skLoading' = FALSE
    /\ skAdd' = NoAdd
    /\ UNCHANGED <<now, bpVars, hpVars, dpVars, spVars, prVars, deleteLoading, skDeletes, skMounted, skLoads, skills,
                   newSkill, success, skFetch, skAdds, skTimers, srvSkills>>

\* lines 29-30, 66, 69-71: the fetchSkills of the handler resolves; the
\* handler starts the 3 s timer and clears loading
AddFetchResolves ==
    /\ skAdd.pc = "getSkills"
    /\ skills' = srvSkills
    /\ skTimers' = Append(skTimers, skAdds)
    /\ skLoading' = FALSE
    /\ skAdd' = NoAdd
    /\ UNCHANGED <<now, bpVars, hpVars, dpVars, spVars, prVars, deleteLoading, skDeletes, skMounted, skLoads, newSkill,
                   skError, success, skFetch, skAdds, srvSkills>>

\* lines 31-33, 66, 69-71: it rejects: fetchSkills sets the error and
\* returns, the handler goes on as above
AddFetchRejects(err) ==
    /\ skAdd.pc = "getSkills"
    /\ skError' = OrElse(err, "Failed to fetch skills")
    /\ skTimers' = Append(skTimers, skAdds)
    /\ skLoading' = FALSE
    /\ skAdd' = NoAdd
    /\ UNCHANGED <<now, bpVars, hpVars, dpVars, spVars, prVars, deleteLoading, skDeletes, skMounted, skLoads, skills,
                   newSkill, success, skFetch, skAdds, srvSkills>>

\* line 66: a timer started 3 s ago runs: setSuccess(''); timers of one
\* delay run in the order they were started
SuccessTimerFires ==
    /\ skTimers # <<>>
    /\ skTimers' = Tail(skTimers)
    /\ success' = ""
    /\ UNCHANGED <<now, bpVars, hpVars, dpVars, spVars, prVars, deleteLoading, skDeletes, skMounted, skLoads, skills,
                   newSkill, skLoading, skError, skFetch, skAdd, skAdds,
                   srvSkills>>

\* handleDeleteSkill, lines 74-80, up to its first await: the delete button
\* of a listed skill is clicked (it is disabled while deleteLoading is that
\* skill) and the confirm dialog is accepted
HandleDeleteSkill(skillId) ==
    /\ skMounted
    /\ skillId \in SkillIds(skills)
    /\ deleteLoading # skillId
    /\ Len(skDeletes) < MaxDeletes
    /\ deleteLoading' = skillId
    /\ skDeletes' = Append(skDeletes, DeleteCall("deleteSkill", skillId))
    /\ UNCHANGED <<now, bpVars, hpVars, dpVars, spVars, prVars, skMounted, skLoads, skills,
                   newSkill, skLoading, skError, success, skFetch, skAdd,
                   skAdds, skTimers, srvSkills>>

HasOtherId(item, id) == item.id # id
WithoutSkill(list, id) ==
    [offering |-> SelectSeq(list.offering, LAMBDA item : HasOtherId(item, id)),
     seeking |-> SelectSeq(list.seeking, LAMBDA item : HasOtherId(item, id))]

\* lines 80-81: deleteSkill resolves (the backend has removed the skill);
\* fetchSkills starts
DeleteSkillResolves(c) ==
    /\ skDeletes[c].pc = "deleteSkill"
    /\ srvSkills' = WithoutSkill(srvSkills, skDeletes[c].skillId)
    /\ skDeletes' = [skDeletes EXCEPT ![c].pc = "getSkills"]
    /\ UNCHANGED <<now, bpVars, hpVars, dpVars, spVars, prVars, skMounted, skLoads, skills,
                   newSkill, skLoading, skError, success, skFetch, skAdd,
                   skAdds, skTimers, deleteLoading>>

\* lines 83-86: deleteSkill rejects with err: catch, then finally
DeleteSkillRejects(c, err) ==
    /\ skDeletes[c].pc = "deleteSkill"
    /\ skError' = OrElse(err, "Failed to delete skill")
    /\ deleteLoading' = NULL
    /\ skDeletes' = [skDeletes EXCEPT ![c].pc = "done"]
    /\ UNCHANGED <<now, bpVars, hpVars, dpVars, spVars, prVars, skMounted, skLoads, skills,
                   newSkill, skLoading, success, skFetch, skAdd, skAdds,
                   skTimers, srvSkills>>

\* lines 29-30, 81, 85-86: the fetchSkills of the handler resolves
DeleteFetchResolves(c) ==
    /\ skDeletes[c].pc = "getSkills"
    /\ skills' = srvSkills
    /\ deleteLoading' = NULL
    /\ skDeletes' = [skDeletes EXCEPT ![c].pc = "done"]
    /\ UNCHANGED <<now, bpVars, hpVars, dpVars, spVars, prVars, skMounted, skLoads, newSkill,
                   skLoading, skError, success, skFetch, skAdd, skAdds,
                   skTimers, srvSkills>>

\* lines 31-33, 81, 85-86: it rejects with err
DeleteFetchRejects(c, err) ==
    /\ skDeletes[c].pc = "getSkills"
    /\ skError' = OrElse(err, "Failed to fetch skills")
    /\ deleteLoading' = NULL
    /\ skDeletes' = [skDeletes EXCEPT ![c].pc = "done"]
    /\ UNCHANGED <<now, bpVars, hpVars, dpVars, spVars, prVars, skMounted, skLoads, skills,
                   newSkill, skLoading, success, skFetch, skAdd, skAdds,
                   skTimers, srvSkills>>

----------------------------------------------------------------------------
(* ProjectsPage *)

SkillsChars == {"a", "b", ",", " "}
FieldChars == {"t", " "}
EmptyProjectForm ==
    [title |-> <<>>, description |-> <<>>, skills |-> <<>>, location |-> <<>>]
ProjectForms ==
    [title : Texts(FieldChars, 1), description : Texts(FieldChars, 1),
     skills : Texts(SkillsChars, MaxSkillsLen), location : Texts(FieldChars, 1)]

NotEmpty(str) == ~Falsy(str)

\* Array.prototype.map(s => s.trim())
TrimAll(parts) == [i \in DOMAIN parts |-> Trim(parts[i])]

\* line 50 without `.filter(Boolean)`
ParseSkillsKeepEmpty(str) == TrimAll(SplitCommas(str))

\* line 50 without `.map(s => s.trim())`
ParseSkillsNoTrim(str) == SelectSeq(SplitCommas(str), NotEmpty)

\* line 50: newProject.skills.split(',').map(s => s.trim()).filter(Boolean)
ParseSkills(str) == SelectSeq(TrimAll(SplitCommas(str)), NotEmpty)

\* lines 48-51: projectData
ProjectData(form) == [form EXCEPT !.skills = ParseSkills(form.skills)]

ProjectCall(pc, data) == [pc |-> pc, projectData |-> data]
DoneCall == ProjectCall("done", EmptyProjectForm)
JoinCall(pc, id) == [pc |-> pc, projectId |-> id]

\* a project as the backend stores and returns it (ids are given in the
\* order of creation; members counts the users who joined)
StoredProject(id, data) == [id |-> id, title |-> data.title, members |-> 0]
ProjectIds(list) == {list[i].id : i \in DOMAIN list}
ProjectFields == {"title", "description", "skills", "location"}
TypedChars == {"a"}

InitProjects ==
    /\ prMounted = FALSE
    /\ prLoads = 0
    /\ projects = <<>>
    /\ prLoading = TRUE
    /\ prError = ""
    /\ showCreateForm = FALSE
    /\ newProject = EmptyProjectForm
    /\ prCalls = <<>>
    /\ joinLoading = NULL
    /\ prJoins = <<>>
    /\ srvProjects = <<>>

\* lines 20-27: the mount effect calls fetchProjects: setLoading(true),
\* getProjects sent
ProjectsMount ==
    /\ MountEffectDue(prMounted)
    /\ prMounted' = TRUE
    /\ prLoads' = prLoads + 1
    /\ prLoading' = TRUE
    /\ prCalls' = Append(prCalls, ProjectCall("getProjects", EmptyProjectForm))
    /\ UNCHANGED <<now, bpVars, hpVars, dpVars, spVars, skVars, projects, prError,
                   showCreateForm, newProject, joinLoading, prJoins,
                   srvProjects>>

\* line 106: the create toggle button (not on the loading screen, line 75)
ToggleCreateForm ==
    /\ prMounted /\ ~prLoading
    /\ showCreateForm' = ~showCreateForm
    /\ UNCHANGED <<now, bpVars, hpVars, dpVars, spVars, skVars, prMounted, prLoads,
                   projects, prLoading, prError, newProject, prCalls,
                   joinLoading, prJoins, srvProjects>>

\* line 207: the Cancel button of the form
CancelCreateForm ==
    /\ prMounted /\ ~prLoading /\ showCreateForm
    /\ showCreateForm' = FALSE
    /\ UNCHANGED <<now, bpVars, hpVars, dpVars, spVars, skVars, prMounted, prLoads,
                   projects, prLoading, prError, newProject, prCalls,
                   joinLoading, prJoins, srvProjects>>

\* lines 218-224: the button of the empty state
CreateFirstProject ==
    /\ prMounted /\ ~prLoading /\ Len(projects) = 0
    /\ showCreateForm' = TRUE
    /\ UNCHANGED <<now, bpVars, hpVars, dpVars, spVars, skVars, prMounted, prLoads,
                   projects, prLoading, prError, newProject, prCalls,
                   joinLoading, prJoins, srvProjects>>

\* handleChange, lines 36-41: a field of the form is edited
ChangeProject(field, value) ==
    /\ prMounted /\ ~prLoading /\ showCreateForm
    /\ newProject' = [newProject EXCEPT ![field] = value]
    /\ UNCHANGED <<now, bpVars, hpVars, dpVars, spVars, skVars, prMounted, prLoads,
                   projects, prLoading, prError, showCreateForm, prCalls,
                   joinLoading, prJoins, srvProjects>>

\* handleCreateProject, lines 43-53, up to its await: the form is submitted
\* (it is on screen when the page is not loading and the form is open)
HandleCreateProject ==
    /\ prMounted /\ ~prLoading /\ showCreateForm
    /\ Len(prCalls) < MaxCreates + 1
    /\ prError' = ""
    /\ prCalls' = Append(prCalls, ProjectCall("createProject", ProjectData(newProject)))
    /\ UNCHANGED <<now, bpVars, hpVars, dpVars, spVars, skVars, joinLoading, prJoins,
                   prMounted, prLoads, projects,
                   prLoading, showCreateForm, newProject, srvProjects>>

\* lines 53-56, 24-27: createProject resolves (the backend has stored the
\* project); the form is cleared and closed and fetchProjects starts
CreateProjectResolves(c) ==
    /\ prCalls[c].pc = "createProject"
    /\ srvProjects' = Append(srvProjects,
                          StoredProject(Len(srvProjects) + 1, prCalls[c].projectData))
    /\ newProject' = EmptyProjectForm
    /\ showCreateForm' = FALSE
    /\ prLoading' = TRUE
    /\ prCalls' = [prCalls EXCEPT ![c] = ProjectCall("getProjects", EmptyProjectForm)]
    /\ UNCHANGED <<now, bpVars, hpVars, dpVars, spVars, skVars, joinLoading, prJoins,
                   prMounted, prLoads, projects,
                   prError>>

\* lines 57-59: createProject rejects with err
CreateProjectRejects(c, err) ==
    /\ prCalls[c].pc = "createProject"
    /\ prError' = OrElse(err, "Failed to create project")
    /\ prCalls' = [prCalls EXCEPT ![c] = DoneCall]
    /\ UNCHANGED <<now, bpVars, hpVars, dpVars, spVars, skVars, joinLoading, prJoins,
                   prMounted, prLoads, projects,
                   prLoading, showCreateForm, newProject, srvProjects>>

\* lines 27-28, 31-33: getProjects resolves
GetProjectsResolves(c) ==
    /\ prCalls[c].pc = "getProjects"
    /\ projects' = srvProjects
    /\ prLoading' = FALSE
    /\ prCalls' = [prCalls EXCEPT ![c] = DoneCall]
    /\ UNCHANGED <<now, bpVars, hpVars, dpVars, spVars, skVars, joinLoading, prJoins,
                   prMounted, prLoads, prError,
                   showCreateForm, newProject, srvProjects>>

\* lines 29-33: getProjects rejects with err
GetProjectsRejects(c, err) ==
    /\ prCalls[c].pc = "getProjects"
    /\ prError' = OrElse(err, "Failed to fetch projects")
    /\ prLoading' = FALSE
    /\ prCalls' = [prCalls EXCEPT ![c] = DoneCall]
    /\ UNCHANGED <<now, bpVars, hpVars, dpVars, spVars, skVars, joinLoading, prJoins,
                   prMounted, prLoads, projects,
                   showCreateForm, newProject, srvProjects>>

\* handleJoinProject, lines 62-65, up to its first await: the Join button of
\* a listed project (disabled while joinLoading is that project)
HandleJoinProject(projectId) ==
    /\ prMounted /\ ~prLoading
    /\ projectId \in ProjectIds(projects)
    /\ joinLoading # projectId
    /\ Len(prJoins) < MaxJoins
    /\ joinLoading' = projectId
    /\ prJoins' = Append(prJoins, JoinCall("joinProject", projectId))
    /\ UNCHANGED <<now, bpVars, hpVars, dpVars, spVars, skVars, prMounted, prLoads,
                   projects, prLoading, prError, showCreateForm, newProject,
                   prCalls, srvProjects>>

\* lines 65-66, 24-27: joinProject resolves (the backend has added the user
\* to the project); fetchProjects starts
JoinProjectResolves(c) ==
    /\ prJoins[c].pc = "joinProject"
    /\ srvProjects' = [i \in DOMAIN srvProjects |->
                         IF srvProjects[i].id = prJoins[c].projectId
                         THEN [srvProjects[i] EXCEPT !.members = @ + 1]
                         ELSE srvProjects[i]]
    /\ prLoading' = TRUE
    /\ prJoins' = [prJoins EXCEPT ![c].pc = "getProjects"]
    /\ UNCHANGED <<now, bpVars, hpVars, dpVars, spVars, skVars, prMounted, prLoads,
                   projects, prError, showCreateForm, newProject, prCalls,
                   joinLoading>>

\* lines 68-72: joinProject rejects with err: catch, then finally
JoinProjectRejects(c, err) ==
    /\ prJoins[c].pc = "joinProject"
    /\ prError' = OrElse(err, "Failed to join project")
    /\ joinLoading' = NULL
    /\ prJoins' = [prJoins EXCEPT ![c] = JoinCall("done", NULL)]
    /\ UNCHANGED <<now, bpVars, hpVars, dpVars, spVars, skVars, prMounted, prLoads,
                   projects, prLoading, showCreateForm, newProject, prCalls,
                   srvProjects>>

\* lines 27-28, 31-33, 67, 70-72: the getProjects of the handler resolves;
\* the alert is shown and the finally block runs
JoinFetchResolves(c) ==
    /\ prJoins[c].pc = "getProjects"
    /\ projects' = srvProjects
    /\ prLoading' = FALSE
    /\ joinLoading' = NULL
    /\ prJoins' = [prJoins EXCEPT ![c] = JoinCall("done", NULL)]
    /\ UNCHANGED <<now, bpVars, hpVars, dpVars, spVars, skVars, prMounted, prLoads,
                   prError, showCreateForm, newProject, prCalls, srvProjects>>

\* lines 29-33, 67, 70-72: it rejects with err: fetchProjects sets the error
\* and returns, the handler goes on as above
JoinFetchRejects(c, err) ==
    /\ prJoins[c].pc = "getProjects"
    /\ prError' = OrElse(err, "Failed to fetch projects")
    /\ prLoading' = FALSE
    /\ joinLoading' = NULL
    /\ prJoins' = [prJoins EXCEPT ![c] = JoinCall("done", NULL)]
    /\ UNCHANGED <<now, bpVars, hpVars, dpVars, spVars, skVars, prMounted, prLoads,
                   projects, showCreateForm, newProject, prCalls, srvProjects>>

----------------------------------------------------------------------------
(* HomePage *)

\* the data-section names of lines 108-221
Sections == {"hero", "stats", "features", "how-it-works", "cta"}

\* an IntersectionObserverEntry: its target's section and isIntersecting
Entry(section, isIntersecting) ==
    [section |-> section, isIntersecting |-> isIntersecting]
Entries == {Entry(s, b) : s \in Sections, b \in BOOLEAN}

\* the update of line 19 reading the state of the render that created the
\* observer, which is the empty set
AddSectionToFirstRender(prev, section) == {section}

\* line 19: prev => new Set([...prev, entry.target.dataset.section])
AddSection(prev, section) == prev \cup {section}

\* lines 17-21: entries.forEach, the updates applied in order
RECURSIVE ApplyEntries(_, _)
ApplyEntries(prev, entries) ==
    IF entries = <<>> THEN prev
    ELSE ApplyEntries(IF Head(entries).isIntersecting
                      THEN AddSection(prev, Head(entries).section)
                      ELSE prev,
                      Tail(entries))

\* lines 109-222: the section's content carries its animation class
HasAnimationClass(section) == section \in visibleSections

InitHome ==
    /\ hpMounted = FALSE
    /\ visibleSections = {}
    /\ hpReports = {}

\* lines 10-27: the mount effect creates the observer and observes every
\* [data-section] element
HomeMount ==
    /\ MountEffectDue(hpMounted)
    /\ hpMounted' = TRUE
    /\ UNCHANGED <<now, bpVars, dpVars, spVars, skVars, prVars,
                   visibleSections, hpReports>>

\* lines 16-22: the browser calls the observer's callback with entries
ObserverCallback(entries) ==
    /\ hpMounted
    /\ visibleSections' = ApplyEntries(visibleSections, entries)
    /\ hpReports' = hpReports \cup {entries[i] : i \in DOMAIN entries}
    /\ UNCHANGED <<now, bpVars, dpVars, spVars, skVars, prVars, hpMounted>>

\* line 29: the page is left: the observer is disconnected and the
\* component's state is dropped
HomeUnmount ==
    /\ hpMounted
    /\ hpMounted' = FALSE
    /\ visibleSections' = {}
    /\ hpReports' = {}
    /\ UNCHANGED <<now, bpVars, dpVars, spVars, skVars, prVars>>

----------------------------------------------------------------------------
(* Specifications *)

NextBooking ==
    \/ BookingMount
    \/ FilterEffect
    \/ \E f \in Filters : SetFilter(f)
    \/ \E btn \in RenderedButtons : ClickStatusButton(btn)
    \/ \E c \in DOMAIN bpCalls : RecvUpdateOk(c)
    \/ \E c \in DOMAIN bpCalls, err \in ErrValues : RecvUpdateErr(c, err)
    \/ \E c \in DOMAIN bpCalls : ServerGetBookings(c)
    \/ \E c \in DOMAIN bpCalls : RecvGetBookingsOk(c)
    \/ \E c \in DOMAIN bpCalls, err \in ErrValues : RecvGetBookingsErr(c, err)
    \/ \E i \in DOMAIN srvBookings, st \in Statuses : ServerOtherParty(i, st)
    \/ Tick

InitSpecBooking ==
    /\ now = 0
    /\ hasGeolocation = TRUE
    /\ InitHome
    /\ InitSkills
    /\ InitProjects
    /\ InitSearch
    /\ InitBooking
    /\ InitDashboard

SpecBooking == InitSpecBooking /\ [][NextBooking]_vars

\* BookingPage right after its first getBookings has answered with any list:
\* the state RecvGetBookingsOk leaves
InitBookingFilter ==
    /\ bpMounted = TRUE
    /\ bpLoads = 1
    /\ bookings \in FetchedLists
    /\ filteredBookings = <<>>
    /\ bpLoading = FALSE
    /\ bpError = ""
    /\ filter = "all"
    /\ actionLoading = NULL
    /\ effectPending = TRUE
    /\ bpCalls = <<DoneFrame>>
    /\ bpFetched = [sent |-> 1, newest |-> 1, resp |-> bookings]
    /\ srvBookings = bookings

NextBookingFilter ==
    \/ FilterEffect
    \/ \E f \in Filters : SetFilter(f)
    \/ Tick

InitSpecBookingFilter ==
    /\ now = 0
    /\ hasGeolocation = TRUE
    /\ InitHome
    /\ InitSkills
    /\ InitProjects
    /\ InitSearch
    /\ InitBookingFilter
    /\ InitDashboard

SpecBookingFilter == InitSpecBookingFilter /\ [][NextBookingFilter]_vars

NextDashboard ==
    \/ DashboardMount
    \/ \E list \in FetchedLists : GetBookingsResolves(list)
    \/ GetBookingsRejects
    \/ \E balance \in Balances : GetCreditsResolves(balance)
    \/ GetCreditsRejects
    \/ \E rep \in Reputations : GetUserReputationResolves(rep)
    \/ GetUserReputationRejects
    \/ Tick

InitSpecDashboard ==
    /\ now = 0
    /\ hasGeolocation = TRUE
    /\ InitHome
    /\ InitSkills
    /\ InitProjects
    /\ InitSearch
    /\ InitBooking
    /\ InitDashboard

SpecDashboard == InitSpecDashboard /\ [][NextDashboard]_vars

\* the page mounts, and the backend answers every request (C5's premise)
FairDashboard ==
    /\ WF_vars(DashboardMount)
    /\ WF_vars(GetBookingsRejects \/ \E list \in FetchedLists : GetBookingsResolves(list))
    /\ WF_vars(GetCreditsRejects \/ \E balance \in Balances : GetCreditsResolves(balance))
    /\ WF_vars(GetUserReputationRejects
                  \/ \E rep \in Reputations : GetUserReputationResolves(rep))

SpecDashboardFair == SpecDashboard /\ FairDashboard

NextSearch ==
    \/ \E hasGeo \in BOOLEAN : SearchMount(hasGeo)
    \/ \E hasGeo \in BOOLEAN : ClickEnableLocation(hasGeo)
    \/ \E location \in Locations : GeoSuccess(location)
    \/ GeoError
    \/ \E q \in Texts(QueryChars, MaxQueryLen) : TypeQuery(q)
    \/ \E t \in SearchTypes : SetSearchType(t)
    \/ \E r \in Radii : SetRadius(r)
    \/ HandleSearch
    \/ \E data \in Texts(Users, MaxResults) : BackendAnswersSearch(data)
    \/ \E err \in SearchErrors : BackendRejectsSearch(err)
    \/ SearchSettles

InitSpecSearch ==
    /\ now = 0
    /\ hasGeolocation \in BOOLEAN
    /\ InitHome
    /\ InitSkills
    /\ InitProjects
    /\ InitBooking
    /\ InitDashboard
    /\ InitSearch

SpecSearch == InitSpecSearch /\ [][NextSearch]_vars

\* SearchPage with its booking modal: the search form is used with the query
\* 'a' and its defaults, one search and one location request at a time
PlainSearchForm ==
    /\ spSent' <= 1
    /\ searchQuery' \in {<<>>, <<"a">>}
    /\ searchType' = "offering"
    /\ radius' = DefaultRadius
    /\ geoPending' <= 1

NextConnect ==
    \/ NextSearch /\ PlainSearchForm
    \/ \E mode \in ViewModes : SetViewMode(mode)
    \/ \E user \in Users : HandleConnectClick(user)
    \/ CloseBookingModal
    \/ \E bookingData \in BookingForms : HandleBookingSubmit(bookingData)
    \/ \E c \in 1..MaxSubmits : BackendAnswersBooking(c)
    \/ \E c \in 1..MaxSubmits, err \in BookingErrors : BackendRejectsBooking(c, err)
    \/ \E c \in 1..MaxSubmits : CreateBookingResolves(c)
    \/ \E c \in 1..MaxSubmits : CreateBookingRejects(c)

InitSpecConnect ==
    /\ now = 0
    /\ hasGeolocation \in BOOLEAN
    /\ InitHome
    /\ InitSkills
    /\ InitProjects
    /\ InitBooking
    /\ InitDashboard
    /\ InitSearch

SpecConnect == InitSpecConnect /\ [][NextConnect]_vars

NextSkills ==
    \/ SkillsMount
    \/ MountSkillsResolve
    \/ \E err \in ErrValues : MountSkillsReject(err)
    \/ \E name \in Texts(NameChars, MaxNameLen) : ChangeSkillName(name)
    \/ \E type \in SkillTypes, proficiency \in Proficiencies :
          ChangeSkillKind(type, proficiency)
    \/ HandleAddSkill
    \/ AddSkillResolves
    \/ \E err \in ErrValues : AddSkillRejects(err)
    \/ AddFetchResolves
    \/ \E err \in ErrValues : AddFetchRejects(err)
    \/ SuccessTimerFires
    \/ \E skillId \in 1..MaxAdds : HandleDeleteSkill(skillId)
    \/ \E c \in DOMAIN skDeletes : DeleteSkillResolves(c)
    \/ \E c \in DOMAIN skDeletes, err \in ErrValues : DeleteSkillRejects(c, err)
    \/ \E c \in DOMAIN skDeletes : DeleteFetchResolves(c)
    \/ \E c \in DOMAIN skDeletes, err \in ErrValues : DeleteFetchRejects(c, err)

InitSpecSkills ==
    /\ now = 0
    /\ hasGeolocation = TRUE
    /\ InitHome
    /\ InitBooking
    /\ InitDashboard
    /\ InitSearch
    /\ InitSkills
    /\ InitProjects

SpecSkills == InitSpecSkills /\ [][NextSkills]_vars

\* ProjectsPage loaded, its create form open and filled in with any content
InitProjectsCreate ==
    /\ prMounted = TRUE
    /\ prLoads = 1
    /\ projects = <<>>
    /\ prLoading = FALSE
    /\ prError = ""
    /\ showCreateForm = TRUE
    /\ newProject \in ProjectForms
    /\ prCalls = <<DoneCall>>
    /\ joinLoading = NULL
    /\ prJoins = <<>>
    /\ srvProjects = <<>>

NextProjectsCreate ==
    \/ HandleCreateProject
    \/ \E c \in DOMAIN prCalls : CreateProjectResolves(c)
    \/ \E c \in DOMAIN prCalls, err \in ErrValues : CreateProjectRejects(c, err)
    \/ \E c \in DOMAIN prCalls : GetProjectsResolves(c)
    \/ \E c \in DOMAIN prCalls, err \in ErrValues : GetProjectsRejects(c, err)

InitSpecProjectsCreate ==
    /\ now = 0
    /\ hasGeolocation = TRUE
    /\ InitHome
    /\ InitBooking
    /\ InitDashboard
    /\ InitSearch
    /\ InitSkills
    /\ InitProjectsCreate

SpecProjectsCreate == InitSpecProjectsCreate /\ [][NextProjectsCreate]_vars

NextProjects ==
    \/ ProjectsMount
    \/ ToggleCreateForm
    \/ CancelCreateForm
    \/ CreateFirstProject
    \/ \E field \in ProjectFields, value \in Texts(TypedChars, MaxTypedLen) :
          ChangeProject(field, value)
    \/ HandleCreateProject
    \/ \E c \in DOMAIN prCalls : CreateProjectResolves(c)
    \/ \E c \in DOMAIN prCalls, err \in ErrValues : CreateProjectRejects(c, err)
    \/ \E c \in DOMAIN prCalls : GetProjectsResolves(c)
    \/ \E c \in DOMAIN prCalls, err \in ErrValues : GetProjectsRejects(c, err)
    \/ \E projectId \in 1..MaxCreates : HandleJoinProject(projectId)
    \/ \E c \in DOMAIN prJoins : JoinProjectResolves(c)
    \/ \E c \in DOMAIN prJoins, err \in ErrValues : JoinProjectRejects(c, err)
    \/ \E c \in DOMAIN prJoins : JoinFetchResolves(c)
    \/ \E c \in DOMAIN prJoins, err \in ErrValues : JoinFetchRejects(c, err)

InitSpecProjects ==
    /\ now = 0
    /\ hasGeolocation = TRUE
    /\ InitHome
    /\ InitBooking
    /\ InitDashboard
    /\ InitSearch
    /\ InitSkills
    /\ InitProjects

SpecProjects == InitSpecProjects /\ [][NextProjects]_vars

\* the skill form holds a name of at most one character and the default
\* proficiency
ShortSkillForm ==
    /\ Len(newSkill'.skillName) <= 1
    /\ newSkill'.proficiency = DefaultProficiency

\* The four pages that load on mount, one of them on screen: a page takes
\* steps while the others have not been mounted (the skill form is filled
\* in with short names only)
NextPages ==
    \/ InitDashboard /\ InitSkills /\ InitProjects /\ NextBooking
    \/ InitBooking /\ InitSkills /\ InitProjects /\ NextDashboard
    \/ now = 0 /\ InitBooking /\ InitDashboard /\ InitProjects /\ NextSkills
          /\ ShortSkillForm
    \/ now = 0 /\ InitBooking /\ InitDashboard /\ InitSkills /\ NextProjects

InitSpecPages ==
    /\ now = 0
    /\ hasGeolocation = TRUE
    /\ InitHome
    /\ InitBooking
    /\ InitDashboard
    /\ InitSearch
    /\ InitSkills
    /\ InitProjects

SpecPages == InitSpecPages /\ [][NextPages]_vars

NextHome ==
    \/ HomeMount
    \/ \E entries \in Texts(Entries, MaxEntries) \ {<<>>} : ObserverCallback(entries)
    \/ HomeUnmount

InitSpecHome ==
    /\ now = 0
    /\ hasGeolocation = TRUE
    /\ InitHome
    /\ InitBooking
    /\ InitDashboard
    /\ InitSearch
    /\ InitSkills
    /\ InitProjects

SpecHome == InitSpecHome /\ [][NextHome]_vars

----------------------------------------------------------------------------
(* Helpers of the properties *)

\* the k-th smallest element of a set of positions
KthOf(S, k) == CHOOSE i \in S : Cardinality({j \in S : j <= i}) = k

\* out holds exactly the elements of inp at the positions S, in inp's order
SelectsExactly(out, inp, S) ==
    /\ Len(out) = Cardinality(S)
    /\ \A k \in 1..Len(out) : out[k] = inp[KthOf(S, k)]

NoDuplicateIds(bs) ==
    \A i, j \in DOMAIN bs : bs[i].id = bs[j].id => i = j

----------------------------------------------------------------------------
(* BookingPage: properties *)

\* the status changes C1 lists for a status and a role
OfferTable(st, isProvider) ==
    CASE st = "pending" /\ isProvider -> {"confirmed", "cancelled"}
      [] st = "pending" /\ ~isProvider -> {}
      [] st = "confirmed" -> {"completed", "cancelled"}
      [] st = "completed" -> {}
      [] st = "cancelled" -> {}

\* the statuses the buttons of the i-th card on screen ask for
ButtonsOfCard(i) == {btn[3] : btn \in {x \in RenderedButtons : x[1] = i}}

\* every card on screen was returned by getBookings: it is a booking of the
\* list held, or (before the filter effect has caught up) of an earlier one
CardsAreFetched ==
    \A i \in DOMAIN RenderedCards :
        /\ RenderedCards[i].id \in 1..NumBookings
        /\ RenderedCards[i] =
               SrvBooking(RenderedCards[i].id, RenderedCards[i].status)
        /\ ~effectPending =>
               \E j \in DOMAIN bookings : bookings[j] = RenderedCards[i]

OffersFollowTable ==
    \A i \in DOMAIN RenderedCards :
        ButtonsOfCard(i) =
            OfferTable(RenderedCards[i].status, RenderedCards[i].isProvider)

\* a call that starts after mount is handleStatusChange for a button on
\* screen, and it sends updateBookingStatus(bookingId, newStatus) at once
StatusChangeForwarded ==
    (bpMounted /\ Len(bpCalls') > Len(bpCalls)) =>
        LET f == bpCalls'[Len(bpCalls')]
        IN  /\ f.pc = "updateBookingStatus"
            /\ \E btn \in RenderedButtons :
                   btn[2] = f.bookingId /\ btn[3] = f.newStatus

\* C1: the status changes BookingPage offers for a booking are a function
\* of the status and role it fetched for it: pending as provider offers
\* confirmed/cancelled, confirmed offers completed/cancelled, anything else
\* offers nothing; handleStatusChange sends the pair it is given to the
\* backend without looking at the booking's current status.
C1_OffersByFetchedStatus ==
    /\ [](CardsAreFetched /\ OffersFollowTable)
    /\ [][StatusChangeForwarded]_vars

\* C1's case: an update is in flight for a booking whose status at the
\* backend is no longer the one the button was offered for
C1_Witness ==
    \E c \in DOMAIN bpCalls :
        /\ bpCalls[c].pc = "updateBookingStatus"
        /\ \E i \in DOMAIN srvBookings :
              /\ srvBookings[i].id = bpCalls[c].bookingId
              /\ bpCalls[c].newStatus \notin NextStatuses(srvBookings[i].status)

\* the positions of the bookings a status tab keeps
KeptByStatus(bs, f) == {i \in DOMAIN bs : f = "all" \/ bs[i].status = f}

\* C2: once the filter effect has run for the current filter and bookings,
\* filteredBookings is the whole list for 'all' and exactly the bookings of
\* that status for 'pending' and 'confirmed', in the order of bookings, with
\* nothing added or duplicated.
C2_StatusTabs ==
    (bpMounted /\ ~effectPending /\ filter \in {"all", "pending", "confirmed"}) =>
        /\ SelectsExactly(filteredBookings, bookings, KeptByStatus(bookings, filter))
        /\ NoDuplicateIds(filteredBookings)
        /\ filter = "all" => filteredBookings = bookings

\* C2's case: the 'pending' tab has dropped a booking and kept another
C2_Witness ==
    /\ ~effectPending
    /\ filter = "pending"
    /\ Len(bookings) = 2
    /\ Len(filteredBookings) = 1
    /\ filteredBookings[1] = bookings[2]

\* C3's reading of 'upcoming' and 'past' at time t
UpcomingAt(bs, t) ==
    {i \in DOMAIN bs :
        /\ bs[i].status \in {"confirmed", "pending"}
        /\ StartOf(bs[i]) # NaN
        /\ StartOf(bs[i]) > t}

PastAt(bs, t) ==
    {i \in DOMAIN bs :
        \/ bs[i].status = "completed"
        \/ (StartOf(bs[i]) # NaN /\ StartOf(bs[i]) < t)}

\* the filter effect, run for one of the two time tabs, leaves exactly the
\* bookings C3 names, read at the time it runs
TimeTabsWhenFiltered ==
    (effectPending /\ ~effectPending') =>
        /\ filter = "upcoming" =>
              SelectsExactly(filteredBookings', bookings, UpcomingAt(bookings, now))
        /\ filter = "past" =>
              SelectsExactly(filteredBookings', bookings, PastAt(bookings, now))

\* what the tabs count at a render, and the two consequences C3 draws
TimeTabsDisjoint ==
    /\ FilterCounts(bookings, now).upcoming = Cardinality(UpcomingAt(bookings, now))
    /\ FilterCounts(bookings, now).past = Cardinality(PastAt(bookings, now))
    /\ \A i \in DOMAIN bookings :
          LET inUp == \E k \in DOMAIN FilterBookings(bookings, "upcoming", now) :
                         FilterBookings(bookings, "upcoming", now)[k] = bookings[i]
              inPast == \E k \in DOMAIN FilterBookings(bookings, "past", now) :
                         FilterBookings(bookings, "past", now)[k] = bookings[i]
          IN  /\ ~(inUp /\ inPast)
              /\ (bookings[i].status = "cancelled" /\ StartOf(bookings[i]) # NaN
                     /\ StartOf(bookings[i]) > now) => (~inUp /\ ~inPast)

\* C3: 'upcoming' selects exactly the confirmed or pending bookings whose
\* start is strictly after the current time, 'past' exactly the completed
\* ones and those whose start is strictly before it; no booking is in both,
\* and a cancelled booking with a future start is in neither.
C3_TimeTabs ==
    /\ []TimeTabsDisjoint
    /\ [][TimeTabsWhenFiltered]_vars

\* C3's case: the 'upcoming' tab has been filtered with a pending booking
\* that starts exactly now (left out) and a confirmed later one (kept)
C3_Witness ==
    /\ ~effectPending
    /\ filter = "upcoming"
    /\ Len(bookings) = 2
    /\ bookings[1].status = "pending" /\ StartOf(bookings[1]) = now
    /\ bookings[2].status = "confirmed" /\ StartOf(bookings[2]) > now
    /\ filteredBookings = <<bookings[2]>>

----------------------------------------------------------------------------
(* DashboardPage: properties *)

Rejected(k) == dpReqs[k].state = "rejected"
Resolved(k) == dpReqs[k].state = "resolved"

\* the list the dashboard works from: the response, or [] after a rejection
FetchedOrEmpty == IF Resolved("getBookings") THEN dpReqs.getBookings.value ELSE <<>>

\* C4: the three load requests are independent: whatever subset of them
\* fails, each failed one is replaced by its default (no bookings, balance
\* 0, no reputation) and what the others returned is shown as returned.
C4_IndependentRequests ==
    ~stats.loading =>
        /\ Rejected("getCredits") => stats.credits = 0
        /\ Resolved("getCredits") => stats.credits = dpReqs.getCredits.value
        /\ Rejected("getUserReputation") => stats.reputation = NoReputation
        /\ Resolved("getUserReputation") =>
              stats.reputation = dpReqs.getUserReputation.value
        /\ Rejected("getBookings") =>
              stats.bookings = <<>> /\ stats.completedSessions = 0
        /\ Resolved("getBookings") =>
              /\ stats.completedSessions =
                    Cardinality({i \in DOMAIN dpReqs.getBookings.value :
                                    dpReqs.getBookings.value[i].status = "completed"})
              \* a confirmed booking still ahead is listed (the clock only
              \* advances, so it was ahead when the page loaded)
              /\ \A i \in DOMAIN dpReqs.getBookings.value :
                    (/\ dpReqs.getBookings.value[i].status = "confirmed"
                     /\ StartOf(dpReqs.getBookings.value[i]) # NaN
                     /\ StartOf(dpReqs.getBookings.value[i]) > now)
                    => \E k \in DOMAIN stats.bookings :
                          stats.bookings[k] = dpReqs.getBookings.value[i]
              /\ \A k \in DOMAIN stats.bookings :
                    \E i \in DOMAIN dpReqs.getBookings.value :
                        stats.bookings[k] = dpReqs.getBookings.value[i]

\* C4's case: two requests were rejected and the third one's result is shown
C4_Witness ==
    /\ ~stats.loading
    /\ Rejected("getCredits")
    /\ Rejected("getUserReputation")
    /\ Resolved("getBookings")
    /\ stats.completedSessions = 1
    /\ Len(stats.bookings) = 1

ThreeSettled ==
    /\ dpReqs.getBookings.state \in {"resolved", "rejected"}
    /\ dpReqs.getCredits.state \in {"resolved", "rejected"}
    /\ dpReqs.getUserReputation.state \in {"resolved", "rejected"}

\* C5: the dashboard is loading from mount until all three requests have
\* settled and not before; when every request settles, loading becomes
\* false; once false it stays false.
C5_LoadingUntilAllSettled ==
    /\ [](stats.loading <=> ~ThreeSettled)
    /\ [][~stats.loading => ~stats'.loading]_vars
    /\ <>(~stats.loading)

\* C5's case: loading has ended after a mix of answers
C5_Witness ==
    /\ ~stats.loading
    /\ Rejected("getBookings")
    /\ Resolved("getCredits")
    /\ Resolved("getUserReputation")

\* the bookings C6 names: confirmed, starting strictly after t
ConfirmedAfter(bs, t) ==
    {i \in DOMAIN bs :
        /\ bs[i].status = "confirmed"
        /\ StartOf(bs[i]) # NaN
        /\ StartOf(bs[i]) > t}

\* at the step that ends loading, read at the time of that step
DashboardWhenLoaded ==
    (stats.loading /\ ~stats'.loading) =>
        LET fetched == IF dpReqs'.getBookings.state = "resolved"
                       THEN dpReqs'.getBookings.value ELSE <<>>
        IN  /\ SelectsExactly(stats'.bookings, fetched, ConfirmedAfter(fetched, now))
            /\ \A k \in DOMAIN stats'.bookings :
                  \E j \in DOMAIN FilterBookings(fetched, "upcoming", now) :
                      FilterBookings(fetched, "upcoming", now)[j] = stats'.bookings[k]

DashboardCounts ==
    ~stats.loading =>
        /\ stats.completedSessions =
              Cardinality({i \in DOMAIN FetchedOrEmpty :
                              FetchedOrEmpty[i].status = "completed"})
        /\ \A k \in DOMAIN stats.bookings : stats.bookings[k].status # "pending"

\* C6: after loading, completedSessions is the number of fetched bookings
\* that are completed and the upcoming list is exactly the fetched bookings
\* that are confirmed and start strictly after the time of loading (never a
\* pending one); each of them is also in BookingPage's 'upcoming' tab for
\* the same bookings and time.
C6_DashboardSessions ==
    /\ []DashboardCounts
    /\ [][DashboardWhenLoaded]_vars

\* C6's case: a pending future booking left out, a confirmed one listed
C6_Witness ==
    /\ ~stats.loading
    /\ Resolved("getBookings")
    /\ Len(dpReqs.getBookings.value) = 2
    /\ dpReqs.getBookings.value[1].status = "pending"
    /\ StartOf(dpReqs.getBookings.value[1]) > now
    /\ dpReqs.getBookings.value[2].status = "confirmed"
    /\ stats.bookings = <<dpReqs.getBookings.value[2]>>

----------------------------------------------------------------------------
(* SearchPage: properties *)

\* a text that is empty or holds nothing but whitespace
OnlyWhitespace(str) == \A i \in DOMAIN str : str[i] \in Whitespace

\* C7: handleSearch with an empty or all-whitespace query sets the error
\* 'Please enter a skill to search', sends nothing and leaves results,
\* searched and loading as they were; with any other query it sends exactly
\* one search request.
C7_SearchValidation ==
    [][HandleSearch =>
          IF OnlyWhitespace(searchQuery)
          THEN /\ spError' = "Please enter a skill to search"
               /\ spSent' = spSent /\ spRequest' = spRequest
               /\ results' = results /\ searched' = searched
               /\ spLoading' = spLoading
          ELSE /\ spSent' = spSent + 1
               /\ spRequest = NoRequest /\ spRequest' # NoRequest
               /\ spRequest'.params.skill = searchQuery]_vars

\* C7's case: after a search that returned users, a query of blanks was
\* submitted: the error is shown and the earlier results are still held
C7_Witness ==
    /\ spError = "Please enter a skill to search"
    /\ searchQuery = <<" ", " ">>
    /\ spSent = 1 /\ spRequest = NoRequest
    /\ searched /\ results # <<>> /\ ~spLoading

\* the request C9 describes, for the state the form is submitted in
NearbyRequest ==
    [call |-> "api.get /users/nearby",
     params |-> [skill |-> searchQuery, radius |-> radius,
                 latitude |-> currentLocation[1],
                 longitude |-> currentLocation[2]]]

SearchUsersRequest ==
    [call |-> "searchUsers",
     params |-> [skill |-> searchQuery, type |-> searchType]]

\* C9: for a valid query handleSearch calls GET /users/nearby with the
\* skill, the radius and the held latitude and longitude (not the search
\* type) when a location is held, and searchUsers with the skill and the
\* type (no radius) when none is; results becomes exactly what the backend
\* answered.
C9_SearchDelegated ==
    /\ [][(HandleSearch /\ ~OnlyWhitespace(searchQuery)) =>
             IF currentLocation # NullLocation
             THEN /\ spRequest' = NearbyRequest
                  /\ DOMAIN spRequest'.params =
                        {"skill", "radius", "latitude", "longitude"}
             ELSE /\ spRequest' = SearchUsersRequest
                  /\ DOMAIN spRequest'.params = {"skill", "type"}]_vars
    /\ [][(spResponse.state = "resolved" /\ spResponse' = NoResponse) =>
             results' = spResponse.data]_vars

\* C9's case: a nearby search made with the radius moved and the other
\* search type selected has returned two users, shown in the order received
C9_Witness ==
    /\ currentLocation # NullLocation
    /\ radius # DefaultRadius
    /\ searchType = "seeking"
    /\ spSent > 0 /\ spRequest = NoRequest
    /\ results = <<1, 2>>

SearchInFlight == spRequest # NoRequest

\* C17: on SearchPage at most one search request is in flight at any time:
\* loading is true exactly while a search request is in flight, and (the
\* form being disabled meanwhile) handleSearch sends a request, and the
\* query, type and radius change, only when none is in flight.
C17_OneSearchInFlight ==
    /\ [](spLoading <=> SearchInFlight)
    /\ [][spSent' # spSent
            => /\ HandleSearch
               /\ ~SearchInFlight /\ ~spLoading
               /\ spSent' = spSent + 1
               /\ SearchInFlight' /\ spLoading']_vars
    /\ [][(SearchInFlight /\ spRequest' # spRequest)
            => SearchSettles /\ ~SearchInFlight' /\ ~spLoading']_vars
    /\ [][SearchInFlight
            => UNCHANGED <<searchQuery, searchType, radius>>]_vars

\* a second search is in flight after the first one has settled
C17_Witness ==
    /\ spSent = 2
    /\ SearchInFlight
    /\ spLoading
    /\ searched

\* lines 122-133: the 'Location access denied' warning is on screen
LocationWarningShown == locationPermission = "denied"

\* C18: on SearchPage a held location implies that locationPermission is
\* 'granted': the 'Location access denied' warning is never shown while a
\* location is held, for any interleaving of the success and error
\* callbacks of the requestLocation calls made at mount and through the
\* 'Enable Location' button.
C18_LocationImpliesGranted ==
    currentLocation # NullLocation
      => locationPermission = "granted" /\ ~LocationWarningShown

----------------------------------------------------------------------------
\* lines 293-299: the 'No results found' block is rendered
EmptyResultsShown == ~spLoading /\ searched /\ Len(results) = 0

\* C19: 'No results found' is shown only when the search request sent last
\* has completed successfully with an empty list: never before a search was
\* submitted, never while one is in flight, never after one that failed.
C19_EmptyResultsOnlyAfterEmptySuccess ==
    EmptyResultsShown => spLast = "resolved" /\ spRequest = NoRequest

\* C20: whenever the booking modal is open selectedProvider is non-null
\* (only handleConnectClick opens the modal, after setting the provider, and
\* the provider is never reset), and every createBooking call made by
\* handleBookingSubmit carries the id of the provider selected last.
C20_SubmitUsesSelectedProvider ==
    /\ [](isBookingModalOpen => selectedProvider # NULL)
    /\ [](selectedProvider = spLastConnect)
    /\ [][~isBookingModalOpen /\ isBookingModalOpen'
            => selectedProvider' = spLastConnect' /\ spLastConnect' \in Users]_vars
    /\ [][selectedProvider # NULL => selectedProvider' # NULL]_vars
    /\ [][spSubmits' # spSubmits
            => /\ spLastConnect \in Users
               /\ Len(spBookingCalls') = Len(spBookingCalls) + 1
               /\ spBookingCalls'[Len(spBookingCalls')].providerId
                     = spLastConnect]_vars

\* provider 1 was booked, then provider 2 was selected and booked while the
\* first createBooking call was still in flight and the modal still open
C20_Witness ==
    /\ isBookingModalOpen
    /\ selectedProvider = 2
    /\ Len(spBookingCalls) = 2
    /\ spBookingCalls[1].providerId = 1
    /\ spBookingCalls[2].providerId = 2

\* this step is the continuation of handleBookingSubmit call c: the call and
\* its answer leave the calls in flight
BookingCallSettles(c) ==
    /\ c \in DOMAIN spBookingCalls
    /\ spBookingCalls' = OtherBookingCalls(c)
    /\ spBookingAnswers' = OtherBookingAnswers(c)

\* C21: handleBookingSubmit closes the booking modal only once createBooking
\* has succeeded. When createBooking fails, isBookingModalOpen,
\* selectedProvider, results and error are left as they were and the promise
\* handed to the modal is rejected with createBooking's error. Sending the
\* request closes nothing, and the modal is otherwise closed by onClose only.
C21_FailedBookingKeepsModal ==
    /\ [][\A c \in 1..MaxSubmits :
            BookingCallSettles(c) =>
                IF spBookingAnswers[c].state = "rejected"
                THEN /\ UNCHANGED <<isBookingModalOpen, selectedProvider,
                                    results, spError>>
                     /\ spSubmitResult' =
                           [state |-> "rejected", err |-> spBookingAnswers[c].err]
                ELSE /\ spBookingAnswers[c].state = "resolved"
                     /\ ~isBookingModalOpen'
                     /\ spSubmitResult' = [state |-> "fulfilled"]]_vars
    /\ [][spSubmits' # spSubmits => UNCHANGED isBookingModalOpen]_vars
    /\ [][isBookingModalOpen /\ ~isBookingModalOpen'
            => \/ \E c \in 1..MaxSubmits :
                    /\ BookingCallSettles(c)
                    /\ spBookingAnswers[c].state = "resolved"
               \/ UNCHANGED <<spBookingCalls, spBookingAnswers, spSubmits,
                              spSubmitResult>>]_vars

\* a booking of provider 1 has failed with a network error: the modal is
\* still open on provider 1, over the result list
C21_Witness ==
    /\ spSubmitResult = [state |-> "rejected", err |-> "Network Error"]
    /\ spSubmits = 1 /\ spBookingCalls = <<>>
    /\ isBookingModalOpen
    /\ selectedProvider = 1
    /\ results = <<2, 1>>
    /\ spError = ""

\* the useState cells of BookingPage: a step that changes one of them
\* renders the page again
BookingCells ==
    <<bookings, filteredBookings, bpLoading, bpError, filter, actionLoading>>

\* C22: in every rendered state after loading (the filter effect of the
\* render having run), the count on the tab of the active filter, computed
\* by that render, is the length of the displayed list: after a refetch,
\* after a switch of filter and as the clock passes a booking's start.
C22_ActiveTabCountMatchesList ==
    [][(BookingCells' # BookingCells /\ ~bpLoading' /\ ~effectPending')
          => FilterCounts(bookings', now')[filter'] = Len(filteredBookings')]_vars

(* SkillsPage properties *)

\* C23: the success message of an add stays until the timer started by that
\* add runs 3 s later, or until a new add is submitted: a displayed message
\* is cleared by nothing else, not by the timer of an earlier add. (While
\* the message is displayed, the add that set it is add number skAdds.)
C23_SuccessClearedByOwnTimer ==
    [][(success = SkillAdded /\ success' = "")
          => \/ skAdds' = skAdds + 1
             \/ /\ skTimers # <<>>
                /\ Head(skTimers) = skAdds
                /\ skTimers' = Tail(skTimers)]_vars


\* C8: SkillsPage.handleAddSkill with a skill name that is empty or consists
\* only of whitespace sets the error 'Skill name is required', sends no
\* addSkill request, and leaves the skills lists, the loading flag, the
\* success message and the form fields unchanged.
C8_AddSkillValidation ==
    [][(HandleAddSkill /\ OnlyWhitespace(newSkill.skillName))
         => /\ skError' = "Skill name is required"
            /\ skAdds' = skAdds
            /\ skAdd' = skAdd
            /\ skills' = skills
            /\ skLoading' = skLoading
            /\ success' = success
            /\ newSkill' = newSkill]_vars

\* a whitespace-only name was submitted while the success message of an
\* earlier add and the fetched skill were on screen
C8_Witness ==
    /\ skError = "Skill name is required"
    /\ newSkill.skillName = <<" ">>
    /\ success = SkillAdded
    /\ skills.offering # <<>>
    /\ skAdds = 1
    /\ ~skLoading

----------------------------------------------------------------------------
(* ProjectsPage properties *)

CommasOf(str) == {i \in DOMAIN str : str[i] = ","}

\* the segment that starts after position p (0, or the position of a comma)
SegmentAfter(str, p) ==
    LET later == {c \in CommasOf(str) : c > p}
        stop == IF later = {} THEN Len(str) + 1
                ELSE CHOOSE c \in later : \A d \in later : c <= d
    IN  SubSeq(str, p + 1, stop - 1)

\* a text without its leading and trailing whitespace
Stripped(str) ==
    LET solid == {i \in DOMAIN str : str[i] \notin Whitespace}
    IN  IF solid = {} THEN <<>>
        ELSE SubSeq(str, CHOOSE i \in solid : \A j \in solid : i <= j,
                         CHOOSE i \in solid : \A j \in solid : j <= i)

\* the starts of the segments that are not blank
SolidSegments(str) ==
    {p \in {0} \cup CommasOf(str) : Stripped(SegmentAfter(str, p)) # <<>>}

\* out lists the stripped non-blank segments of str in their order
ListsSegments(out, str) ==
    /\ Len(out) = Cardinality(SolidSegments(str))
    /\ \A k \in DOMAIN out :
          out[k] = Stripped(SegmentAfter(str, KthOf(SolidSegments(str), k)))

NoSurroundingSpace(str) ==
    /\ str # <<>>
    /\ str[1] \notin Whitespace
    /\ str[Len(str)] \notin Whitespace

CreateSent(call) == call.pc = "createProject"

\* C10: ProjectsPage.handleCreateProject sends as skills the comma-separated
\* segments of the skills field, each without its leading and trailing
\* whitespace, empty segments dropped and the order kept (an empty or
\* all-commas field gives the empty list; no element is empty or has
\* surrounding whitespace); title, description and location are sent
\* unchanged.
C10_SkillsSplit ==
    [][HandleCreateProject
         => LET sent == prCalls'[Len(prCalls')].projectData
            IN  /\ Len(prCalls') = Len(prCalls) + 1
                /\ CreateSent(prCalls'[Len(prCalls')])
                /\ ListsSegments(sent.skills, newProject.skills)
                /\ \A k \in DOMAIN sent.skills : NoSurroundingSpace(sent.skills[k])
                /\ (\A i \in DOMAIN newProject.skills : newProject.skills[i] = ",")
                      => sent.skills = <<>>
                /\ sent.title = newProject.title
                /\ sent.description = newProject.description
                /\ sent.location = newProject.location]_vars

\* " a," was submitted with a title that is a blank: the one skill is sent
\* stripped, the empty segment is dropped, and the title goes as typed
C10_Witness ==
    \E c \in DOMAIN prCalls :
        /\ CreateSent(prCalls[c])
        /\ newProject.skills = <<" ", "a", ",">>
        /\ prCalls[c].projectData.skills = << <<"a">> >>
        /\ prCalls[c].projectData.title = <<" ">>
----------------------------------------------------------------------------
(* Load requests of the four pages *)

\* the calls of a list that reach the given request in this step
Issued(calls, pc) ==
    {c \in DOMAIN calls' :
        calls'[c].pc = pc /\ (c \in DOMAIN calls => calls[c].pc # pc)}

\* the dashboard requests sent in this step
DashboardIssued ==
    {k \in DOMAIN dpReqs : dpReqs'[k].state = "pending" /\ dpReqs[k].state # "pending"}

\* the step in which a page mounts
Mounting(mounted) == ~mounted /\ mounted'

\* a page has sent one load request from its mount effect once it is
\* mounted (the dashboard its three) and none before
LoadedOnce ==
    /\ bpLoads = IF bpMounted THEN 1 ELSE 0
    /\ dpLoads = IF dpMounted THEN 3 ELSE 0
    /\ skLoads = IF skMounted THEN 1 ELSE 0
    /\ prLoads = IF prMounted THEN 1 ELSE 0

\* the mount step comes before any other step of the page and sends the
\* load request
MountLoads ==
    /\ Mounting(bpMounted)
         => /\ bpCalls = <<>> /\ filter = "all" /\ actionLoading = NULL
            /\ bpCalls' = <<[CallFrame("fetchBookings", NULL, "", "getBookings")
                               EXCEPT !.sent = 1]>>
    /\ Mounting(dpMounted)
         => /\ InitDashboard
            /\ DashboardIssued = {"getBookings", "getCredits", "getUserReputation"}
    /\ Mounting(skMounted)
         => /\ InitSkills
            /\ skFetch' = "pending"
    /\ Mounting(prMounted)
         => /\ InitProjects
            /\ prCalls' = <<ProjectCall("getProjects", EmptyProjectForm)>>

\* any other step that sends a load request is the continuation of a
\* handler the user started, after its own request has succeeded
ReloadsByHandlers ==
    /\ ~Mounting(bpMounted)
         => \A c \in Issued(bpCalls, "getBookings") :
               /\ c \in DOMAIN bpCalls
               /\ bpCalls[c].kind = "handleStatusChange"
               /\ bpCalls[c].pc = "updateBookingStatus"
    /\ ~Mounting(dpMounted) => DashboardIssued = {}
    /\ ~Mounting(skMounted)
         => /\ skFetch' = "pending" => skFetch = "pending"
            /\ (skAdd'.pc = "getSkills" /\ skAdd.pc # "getSkills")
                  => skAdd.pc = "addSkill"
            /\ \A c \in Issued(skDeletes, "getSkills") :
                  c \in DOMAIN skDeletes /\ skDeletes[c].pc = "deleteSkill"
    /\ ~Mounting(prMounted)
         => /\ \A c \in Issued(prCalls, "getProjects") :
                  c \in DOMAIN prCalls /\ prCalls[c].pc = "createProject"
            /\ \A c \in Issued(prJoins, "getProjects") :
                  c \in DOMAIN prJoins /\ prJoins[c].pc = "joinProject"

\* C11: ProjectsPage, BookingPage, DashboardPage and SkillsPage each send
\* their load request (getProjects, getBookings, the three dashboard
\* requests, getSkills) exactly once when mounted, before and without any
\* user action; no later render sends another one: a later load request is
\* sent only by a handler the user started.
C11_LoadOnMount ==
    /\ []LoadedOnce
    /\ [][MountLoads /\ ReloadsByHandlers]_vars

\* BookingPage has reloaded after a status change: its mount effect has
\* still sent one request
C11_Witness ==
    /\ bpMounted
    /\ bpLoads = 1
    /\ \E c \in DOMAIN bpCalls :
          bpCalls[c].kind = "handleStatusChange" /\ bpCalls[c].pc = "getBookings"
----------------------------------------------------------------------------
(* fetchBookings and fetchProjects *)

BookingFetches ==
    {c \in DOMAIN bpCalls : bpCalls[c].pc \in {"getBookings", "getOk", "getErr"}}
ProjectFetches == {c \in DOMAIN prCalls : prCalls[c].pc = "getProjects"}
JoinFetches == {c \in DOMAIN prJoins : prJoins[c].pc = "getProjects"}

\* loading is true while a fetch is in flight
LoadingWhileFetching ==
    /\ BookingFetches # {} => bpLoading
    /\ (ProjectFetches # {} \/ JoinFetches # {}) => prLoading

\* the step in which a fetch of BookingPage settles leaves loading false;
\* a failure keeps the list and sets a non-empty error, a success stores
\* the response
BookingFetchSettles ==
    \A c \in BookingFetches :
        bpCalls'[c].pc = "done"
          => /\ ~bpLoading'
             /\ bpCalls[c].pc = "getErr" => bookings' = bookings /\ bpError' # ""
             /\ bpCalls[c].pc = "getOk" => bookings' = bpCalls[c].resp

\* the same for ProjectsPage (the backend answers with what it holds)
ProjectFetchSettles ==
    /\ \A c \in ProjectFetches :
          prCalls'[c].pc = "done"
            => /\ ~prLoading'
               /\ \/ projects' = projects /\ prError' # ""
                  \/ projects' = srvProjects /\ prError' = prError
    /\ \A c \in JoinFetches :
          prJoins'[c].pc = "done"
            => /\ ~prLoading'
               /\ \/ projects' = projects /\ prError' # ""
                  \/ projects' = srvProjects /\ prError' = prError

\* C12: for fetchBookings on BookingPage and fetchProjects on ProjectsPage,
\* loading is true from the start of the fetch until the request settles and
\* false afterwards, on success and on failure; a failure leaves the list
\* held unchanged and sets a non-empty error; a success replaces the list by
\* the response.
C12_LoadingFollowsFetch ==
    /\ []LoadingWhileFetching
    /\ [][BookingFetchSettles /\ ProjectFetchSettles]_vars
----------------------------------------------------------------------------
(* BookingPage: what a status change shows *)

\* the status the page shows for a booking, or "" when it has no card
Displayed(bookingId) ==
    IF \E i \in DOMAIN RenderedCards : RenderedCards[i].id = bookingId
    THEN RenderedCards[CHOOSE i \in DOMAIN RenderedCards :
                          RenderedCards[i].id = bookingId].status
    ELSE ""

\* the answer to updateBookingStatus arrives for call c
UpdateAnswered(c) ==
    \/ RecvUpdateOk(c)
    \/ \E err \in ErrValues : RecvUpdateErr(c, err)

\* C13 as stated: UI state is optimistic: when the answer to
\* updateBookingStatus arrives, the page already shows the requested status
\* for that booking.
C13_OptimisticStatus ==
    [][\A c \in DOMAIN bpCalls :
          UpdateAnswered(c) => Displayed(bpCalls[c].bookingId) = bpCalls[c].newStatus]_vars

\* C13 amended: a status change is not shown optimistically: the click sets
\* only actionLoading and error and sends the request; bookings and
\* filteredBookings keep the fetched statuses, and bookings changes only
\* when a getBookings response is stored.
C13_StatusAfterRefetch ==
    /\ [][(\E btn \in RenderedButtons : ClickStatusButton(btn))
            => /\ bookings' = bookings
               /\ filteredBookings' = filteredBookings
               /\ actionLoading' # NULL
               /\ bpError' = ""]_vars
    /\ [][bookings' # bookings
            => \E c \in DOMAIN bpCalls :
                  bpCalls[c].pc = "getOk" /\ bookings' = bpCalls[c].resp]_vars

\* an updateBookingStatus request is in flight and the card of its booking
\* still shows the fetched status
C13_Witness ==
    \E c \in DOMAIN bpCalls :
        /\ bpCalls[c].pc = "updateBookingStatus"
        /\ actionLoading = bpCalls[c].bookingId
        /\ Displayed(bpCalls[c].bookingId) \in Statuses \ {bpCalls[c].newStatus}
----------------------------------------------------------------------------
(* HomePage: properties *)

ReportedIntersecting == {e.section : e \in {r \in hpReports : r.isIntersecting}}

\* the step is a call of the observer's callback in which every entry
\* reported for the first time has isIntersecting false
OnlyNotIntersectingReported ==
    /\ hpMounted /\ hpMounted'
    /\ \A r \in hpReports' \ hpReports : ~r.isIntersecting

\* C14: on HomePage visibleSections is empty at mount, a section name enters
\* it only when the observer reports that section with isIntersecting true,
\* and a name is never removed: a section carries its animation class
\* exactly if the observer has reported it intersecting since mount, and a
\* report with isIntersecting false changes nothing.
C14_VisibleSections ==
    /\ [](\A s \in Sections : HasAnimationClass(s) <=> s \in ReportedIntersecting)
    /\ [][Mounting(hpMounted) => visibleSections' = {}]_vars
    /\ [][hpMounted' => visibleSections \subseteq visibleSections']_vars
    /\ [][OnlyNotIntersectingReported => visibleSections' = visibleSections]_vars

\* 'hero' was reported intersecting and later not intersecting, 'stats'
\* only not intersecting: 'hero' keeps its class, 'stats' has none
C14_Witness ==
    /\ Entry("hero", TRUE) \in hpReports
    /\ Entry("hero", FALSE) \in hpReports
    /\ Entry("stats", FALSE) \in hpReports
    /\ Entry("features", TRUE) \in hpReports
    /\ visibleSections = {"hero", "features"}
----------------------------------------------------------------------------
(* BookingPage: requests in flight *)

UpdatesInFlight == {c \in DOMAIN bpCalls : bpCalls[c].pc = "updateBookingStatus"}

\* C15: on BookingPage, for as long as an updateBookingStatus request for a
\* booking is in flight, actionLoading equals that booking's id (its action
\* buttons are disabled), also when a status change of another booking
\* starts or finishes meanwhile; so no two requests for the same booking are
\* in flight together.
C15_DisabledWhileUpdating ==
    /\ \A c \in UpdatesInFlight : actionLoading = bpCalls[c].bookingId
    /\ \A c, d \in UpdatesInFlight :
          bpCalls[c].bookingId = bpCalls[d].bookingId => c = d

AllBookingCallsSettled == \A c \in DOMAIN bpCalls : bpCalls[c].pc = "done"

\* C16: on BookingPage, once every request in flight has settled, the
\* bookings held are the response to the most recently sent getBookings
\* call that succeeded: the response to an earlier fetch never replaces the
\* response to a later one, in whatever order the responses arrive.
C16_LatestFetchWins ==
    (AllBookingCallsSettled /\ bpFetched.newest > 0)
      => bookings = bpFetched.resp
=============================================================================
